---- MODULE Spec2Model ----
(***************************************************************************)
(* Model of the job-board scraper: the discovery engine                    *)
(* (find_companies.py), the harvest spiders and their failure classifier   *)
(* (spiders/*.py), the work distributor (scraper_util.py) and record-id    *)
(* generation (utils/general.py), the harvest run (run_job_scraper.py).    *)
(*                                                                         *)
(* Each subsystem has its own specification over the shared variables:     *)
(*   SpecChunk       get_url_chunks applied to bounded inputs              *)
(*   SpecClassifier  one spider's errback_httpbin against the store        *)
(*   SpecStore       two discovery processes upserting into the store and  *)
(*                   harvest workers disabling urls                        *)
(*   SpecRecursive   recursive_discovery in one process, upserts of the    *)
(*                   other process interleaved                             *)
(*   SpecRecursiveLive  recursive_discovery alone, its steps taken fairly  *)
(*   SpecHash        two determine_row_id calls in one process             *)
(*   SpecPaging      a spider paging through a new-format Greenhouse board *)
(*   SpecPagingLive  the same, every request answered or failed            *)
(*   SpecRowIndex    the sequence indexes of two job rows of one board     *)
(*   SpecLever       the Lever spider parsing one board page               *)
(*   SpecScan        the directory scan and keyword searches of one        *)
(*                   discovery process                                     *)
(*   SpecProbe       scan_lever_companies (probe by name) in one discovery *)
(*                   process                                               *)
(*   SpecVerify      the liveness check of urls: HEAD, GET fallback, verdict *)
(*   SpecMain        one harvest run: run_job_scraper.py from               *)
(*                   initialize_database to the exit of the process        *)
(***************************************************************************)
EXTENDS Integers, Sequences, FiniteSets, TLC

VARIABLES
    \* ---- work distributor (scraper_util.get_url_chunks) ----
    careers_page_urls,  \* argument: list of 1-tuples <<url>>
    chunk_size,         \* argument
    url_chunks,         \* return value
    chunk_pc,           \* "call" before the call, "done" after it
    \* ---- the company store (table company_urls) ----
    store,              \* sequence of rows, in insertion order
    \* ---- one harvest spider and its failure classifier ----
    sp_careers_page_url,\* the careers_page_url the spider was constructed with
    retry_counts,       \* self.retry_counts: dict url -> count
    failure_log,        \* failures delivered to errback_httpbin so far, in order
    \* ---- discovery processes (CompanyURLFinder instances) ----
    checked_urls,       \* self.checked_urls, per process
    checked_companies,  \* self.checked_companies, per process
    last_add,           \* the most recent add_company call and what it returned
    true_returns,       \* per process and url: how many add_company calls returned True
    store0,             \* the urls in the store when the discovery runs started
    conn_failed,        \* per process: whether self.conn is in a failed transaction
    \* ---- recursive_discovery, run by process 1 ----
    rd_pc,              \* "idle", "loop" (at while url_queue), "links" (in the link loop), "done"
    rd_max_depth,       \* argument max_depth
    url_queue,          \* list of <<url, depth>>
    rd_current,         \* <<current_url, depth>> of the iteration in progress
    potential_company_links, \* links of the current page still to process
    companies_found,    \* local counter, the return value
    rd_fetched,         \* urls passed to requests.get in this call, in order
    rd_dropped,         \* urls popped and dropped because they were in the ledger
    rd_start,           \* the ledger of p1 when recursive_discovery was called
    rd_adds,            \* number of add_company calls made by recursive_discovery
    rd_popped,          \* number of queue entries popped by recursive_discovery
    rd_requeued,        \* the urls appended to url_queue by the link loop
    \* ---- record-id generation (utils/general.hash_ids) ----
    hash_salt,          \* os.environ['HASHIDS_SALT'], as a sequence of code points
    id_calls,           \* the determine_row_id calls made so far (at most two)
    \* ---- a spider crawling a new-format (job-boards) board ----
    pg_spider,          \* "departments" or "outline"
    pg_board,           \* the board: pages of job-posts containers
    page_number,        \* self.page_number
    pg_pending,         \* page of the request in flight, 0 if none
    pg_requests,        \* pages requested so far, in order
    pg_items,           \* records emitted so far, in order
    pg_raised,          \* whether a callback of the crawl raised
    pg_failed,          \* pages whose request failed (no response, or an HTTP error)
    pg_delivered,       \* pages whose failure was passed to errback_httpbin
    pg_repeats,         \* whether the board serves its last page for every later ?page=N
    pg_uncounted,       \* parity of the number of pages parsed past page MaxFetches
    \* ---- the Lever spider on one board page ----
    lv_page,            \* the postings-groups of the page
    lv_pc,              \* "start", "fetching" or "done"
    lv_items,           \* records emitted so far, in order
    lv_raised,          \* whether parse raised
    lv_secondary,       \* secondary_string in each pass of the loop over the groups
    \* ---- a discovery strategy call of process p1 (directory scan, search) ----
    st_pc,              \* "idle", "scan", "scan_links", "search_results", "done"
    st_count,           \* the local companies_found of the running strategy
    st_returned,        \* the value the last strategy call returned
    st_rows0,           \* the store when the strategy was called
    st_raised,          \* whether an add_company call of the strategy raised
    sc_letter,          \* 1-based position in the alphabet of the letter in work
    sc_attempts,        \* letters whose listing page was requested, in order
    sc_failed,          \* whether the work on a letter failed (exception, not 200)
    sc_links,           \* company_links still to process for the current letter
    sc_listed,          \* the anchors of every listing page received, per letter
    st_strategy,        \* "none", "scan" or "search": the strategy called last
    se_board_type,      \* board_type argument of the search
    se_status,          \* status of the search response, 0 if the request raised
    se_results,         \* search_results still to process
    se_calls,           \* number of search_companies calls made
    \* ---- the harvest run (run_job_scraper.py __main__) ----
    mn_pc,              \* position of the main flow
    mn_chunk_size,      \* chunk_size: int(os.environ.get("CHUNK_SIZE", 1))
    urls_to_scrape,     \* result of the enabled-url query: list of 1-tuples
    mn_todo,            \* number of urls_to_scrape verify_urls has dealt with
    valid_urls,         \* verify_urls: valid_urls
    invalid_urls,       \* verify_urls: the urls of invalid_urls
    mn_chunks,          \* chunks
    mn_runs,            \* the run_spider calls made, with the spiders each created
    mn_raised,          \* where an exception was raised: "none", "init", "query", ...
    mn_logged,          \* whether the handler at the top level logged the exception
    mn_status,          \* exit status of the process, -1 while it runs
    mn_cpu_count,       \* multiprocessing.cpu_count()
    mn_pool,            \* number of worker processes of the pool, 0: no pool
    mn_running,         \* chunk numbers of the run_spider calls in progress
    mn_failed,          \* whether a run_spider call in a worker raised
    \* ---- probe-by-name of process p1 (scan_lever_companies) ----
    pb_companies,       \* the list of company names gone through
    pb_pc,              \* position in scan_lever_companies
    pb_i,               \* 1-based index of the company at hand
    pb_variations,      \* company_variations still to try, with their rank
    pb_fetched,         \* the requests made, in order
    pb_count,           \* companies_found
    pb_returned,        \* the value returned
    \* ---- the liveness check of urls (run_job_scraper.py) ----
    vf_caller,          \* "verify_urls" or "verify_url_before_adding"
    vf_pc,              \* "idle", "head", "get", "decide" or "done"
    vf_left,            \* urls still to check
    vf_head,            \* the outcome of requests.head for the url at hand
    vf_get,             \* the outcome of requests.get, if it was called
    vf_log,             \* per url checked: the requests made and the verdict
    \* ---- sequence indexes of the job rows of an outline spider ----
    ri_calls            \* the parse_job_boards_prefix calls made (at most two)

chunkVars == <<careers_page_urls, chunk_size, url_chunks, chunk_pc>>
clsVars == <<sp_careers_page_url, retry_counts, failure_log>>

discVars == <<checked_urls, checked_companies, last_add, true_returns, store0, conn_failed>>
rdVars == <<rd_pc, rd_max_depth, url_queue, rd_current, potential_company_links,
            companies_found, rd_fetched, rd_dropped, rd_start, rd_adds, rd_popped,
            rd_requeued>>

hashVars == <<hash_salt, id_calls>>

pageVars == <<pg_spider, pg_board, page_number, pg_pending, pg_requests, pg_items, pg_raised,
             pg_failed, pg_delivered, pg_repeats, pg_uncounted>>

leverVars == <<lv_page, lv_pc, lv_items, lv_raised, lv_secondary>>

stratVars == <<st_pc, st_count, st_returned, st_rows0, st_raised,
               sc_letter, sc_attempts, sc_failed, sc_links, sc_listed,
               st_strategy, se_board_type, se_status, se_results, se_calls>>

mainVars == <<mn_pc, mn_chunk_size, urls_to_scrape, mn_todo, valid_urls, invalid_urls,
              mn_chunks, mn_runs, mn_raised, mn_logged, mn_status,
              mn_cpu_count, mn_pool, mn_running, mn_failed>>

probeVars == <<pb_companies, pb_pc, pb_i, pb_variations, pb_fetched, pb_count, pb_returned>>
verifyVars == <<vf_caller, vf_pc, vf_left, vf_head, vf_get, vf_log>>
rowVars == <<ri_calls>>

vars == <<chunkVars, store, clsVars, discVars, rdVars, hashVars, pageVars, leverVars, stratVars, mainVars, probeVars, verifyVars, rowVars>>

----------------------------------------------------------------------------
(* Helpers *)

Max(a, b) == IF a >= b THEN a ELSE b

Range(s) == {s[k] : k \in DOMAIN s}

SeqsUpTo(S, n) == UNION {[1..k -> S] : k \in 0..n}

\* Python's None: what .get() returns when nothing matched, an absent
\* attribute
None == "None"

RECURSIVE Flatten(_)
Flatten(ss) == IF ss = <<>> THEN <<>> ELSE Head(ss) \o Flatten(Tail(ss))

----------------------------------------------------------------------------
(* URLs.  A URL string "https://<host>/<slug><rest>" is kept as its parts,  *)
(* so that the string operations of the code (strip a trailing slash, take  *)
(* the first path segment, test the host) are computed and not assumed.     *)

GREENHOUSE == "boards.greenhouse.io"
JOB_BOARDS == "job-boards.greenhouse.io"
LEVER == "jobs.lever.co"

Url(h, s, r) == [host |-> h, slug |-> s, rest |-> r]

----------------------------------------------------------------------------
(* The company store: table company_urls(id, url UNIQUE, is_enabled,        *)
(* company_name, created_at, updated_at).  A row's id is its insertion      *)
(* rank; updated_at is kept as "created" (still the insertion time) or      *)
(* "updated" (set by an UPDATE).  Rows are kept in a sequence, so that two  *)
(* rows with one url are representable.                                     *)

Row(i, u, e, n, t) ==
    [id |-> i, url |-> u, is_enabled |-> e, company_name |-> n, updated_at |-> t]

StoreUrls(st) == {st[k].url : k \in DOMAIN st}

RowsOf(st, u) == {k \in DOMAIN st : st[k].url = u}

\* SELECT ... WHERE url = u AND is_enabled
IsEnabled(st, u) == \E k \in RowsOf(st, u) : st[k].is_enabled

\* sequences of pairwise different elements of U
DistinctSeqs(U) ==
    {s \in SeqsUpTo(U, Cardinality(U)) :
        \A i, j \in DOMAIN s : i # j => s[i] # s[j]}

\* what a row can look like: enabled as inserted, disabled at insertion
\* (initialize_database inserts is_enabled = valid), or disabled by an UPDATE
RowFlags == {<<TRUE, "created">>, <<FALSE, "created">>, <<FALSE, "updated">>}

\* the stores over the urls U that satisfy the UNIQUE (url) constraint
Stores(U, Names, Flags) ==
    UNION {{[k \in DOMAIN s |-> Row(k, s[k], f[k][1], n[k], f[k][2])] :
               f \in [DOMAIN s -> Flags], n \in [DOMAIN s -> Names]} :
           s \in DistinctSeqs(U)}

StoreIdle == store = <<>>

----------------------------------------------------------------------------
(* Harvest spider: construction and the failure classifier                  *)

max_retries == 3

MaxFailures == 4

\* html_source: careers_page_url without its trailing "/"
html_source(careers_page_url) ==
    IF careers_page_url.rest = "/"
    THEN [careers_page_url EXCEPT !.rest = ""]
    ELSE careers_page_url

\* the url property
SpiderUrl == html_source(sp_careers_page_url)

\* a disabling that deletes the row
UpdateDisabled_Delete(st, u) == SelectSeq(st, LAMBDA r : r.url # u)

\* UPDATE company_urls SET is_enabled=false, updated_at=CURRENT_TIMESTAMP
\* WHERE url = u
UpdateDisabled(st, u) ==
    [k \in DOMAIN st |->
        IF st[k].url = u
        THEN [st[k] EXCEPT !.is_enabled = FALSE, !.updated_at = "updated"]
        ELSE st[k]]

\* mark_url_as_disabled: the UPDATE is keyed by self.url
mark_url_as_disabled(st) == UpdateDisabled(st, SpiderUrl)

HttpStatuses == {403, 404, 500}

HttpFailures == [kind : {"HttpError"}, status : HttpStatuses]

NetworkFailures ==
    [kind : {"DNSLookupError", "TimeoutError", "TCPTimedOutError",
             "ConnectionRefusedError"},
     status : {0}]

Failures == HttpFailures \cup NetworkFailures

\* failure.check(DNSLookupError, TimeoutError, TCPTimedOutError)
IsTransient(failure) ==
    failure.kind \in {"DNSLookupError", "TimeoutError", "TCPTimedOutError"}

IsNotFound(failure) == failure.kind = "HttpError" /\ failure.status = 404

IsOtherHttp(failure) == failure.kind = "HttpError" /\ failure.status # 404

\* self.retry_counts[self.url] after the increment
Incremented(counts, u) ==
    IF u \notin DOMAIN counts
    THEN [x \in DOMAIN counts \cup {u} |-> IF x = u THEN 1 ELSE counts[x]]
    ELSE [counts EXCEPT ![u] = counts[u] + 1]

\* a classifier that disables on every HTTP error
errback_httpbin_AnyHttpError(failure) ==
    /\ failure_log' = Append(failure_log, failure)
    /\ IF failure.kind = "HttpError"
       THEN /\ store' = mark_url_as_disabled(store)
            /\ UNCHANGED retry_counts
       ELSE IF IsTransient(failure)
       THEN /\ retry_counts' = Incremented(retry_counts, SpiderUrl)
            /\ IF retry_counts'[SpiderUrl] >= max_retries
               THEN store' = mark_url_as_disabled(store)
               ELSE UNCHANGED store
       ELSE UNCHANGED <<store, retry_counts>>
    /\ UNCHANGED sp_careers_page_url

errback_httpbin(failure) ==
    /\ failure_log' = Append(failure_log, failure)
    /\ IF failure.kind = "HttpError"
       THEN /\ IF failure.status = 404
               THEN store' = mark_url_as_disabled(store)
               ELSE UNCHANGED store
            /\ UNCHANGED retry_counts
       ELSE IF IsTransient(failure)
       THEN /\ retry_counts' = Incremented(retry_counts, SpiderUrl)
            /\ IF retry_counts'[SpiderUrl] >= max_retries
               THEN store' = mark_url_as_disabled(store)
               ELSE UNCHANGED store
       ELSE UNCHANGED <<store, retry_counts>>
    /\ UNCHANGED sp_careers_page_url

\* the engine delivers a failed fetch to the classifier
Errback ==
    /\ Len(failure_log) < MaxFailures
    /\ \E failure \in Failures : errback_httpbin(failure)
    /\ UNCHANGED <<chunkVars, discVars, rdVars, hashVars, pageVars, leverVars, stratVars, mainVars, probeVars, verifyVars, rowVars>>

ClsUrls == {Url(GREENHOUSE, "acme", ""), Url(GREENHOUSE, "beta", "/")}

\* the spider is constructed on a url the enabled-url query returned
ClsInit ==
    /\ store \in Stores(ClsUrls, {"Acme"}, RowFlags)
    /\ sp_careers_page_url \in {u \in StoreUrls(store) : IsEnabled(store, u)}
    /\ retry_counts = <<>>
    /\ failure_log = <<>>

ClsIdle ==
    /\ sp_careers_page_url = Url(GREENHOUSE, "acme", "")
    /\ retry_counts = <<>>
    /\ failure_log = <<>>

Delivered(P(_)) == Cardinality({k \in DOMAIN failure_log : P(failure_log[k])})

----------------------------------------------------------------------------
(* Discovery: add_company                                                   *)

\* the observed discovery process and a second one running concurrently
Procs == {"p1", "p2"}

\* str.lower() and str.title() on the names and slugs of the model
Lower(name) ==
    CASE name = "Acme" -> "acme"
      [] name = "Beta" -> "beta"
      [] name = "Unknown" -> "unknown"
      [] name = "Beta Labs" -> "beta labs"
      [] OTHER -> name

Title(slug) ==
    CASE slug = "acme" -> "Acme"
      [] slug = "beta" -> "Beta"
      [] OTHER -> slug

\* the urls the strategies of the model pass to add_company
AddUrls == {Url(GREENHOUSE, "acme", ""), Url(GREENHOUSE, "beta", ""),
            Url(LEVER, "acme", "")}

AddNames == {"Acme", "Beta"}

\* a plain INSERT on a table without the unique constraint
InsertIfAbsent_NoConstraint(st, url, company_name, db_error) ==
    IF db_error
    THEN [store |-> st, returning |-> FALSE, raised |-> TRUE]
    ELSE [store |-> Append(st, Row(Len(st) + 1, url, TRUE, company_name, "created")),
          returning |-> TRUE, raised |-> FALSE]

\* an upsert that overwrites on conflict (ON CONFLICT (url) DO UPDATE)
InsertIfAbsent_Overwrite(st, url, company_name, db_error) ==
    IF db_error
    THEN [store |-> st, returning |-> FALSE, raised |-> TRUE]
    ELSE IF RowsOf(st, url) # {}
    THEN [store |-> [k \in DOMAIN st |->
                        IF st[k].url = url
                        THEN [st[k] EXCEPT !.company_name = company_name,
                                           !.is_enabled = TRUE, !.updated_at = "updated"]
                        ELSE st[k]],
          returning |-> FALSE, raised |-> FALSE]
    ELSE [store |-> Append(st, Row(Len(st) + 1, url, TRUE, company_name, "created")),
          returning |-> TRUE, raised |-> FALSE]

\* an upsert that enables the row again on conflict
\* (ON CONFLICT (url) DO UPDATE SET is_enabled = true)
InsertIfAbsent_Reenable(st, url, company_name, db_error) ==
    IF db_error
    THEN [store |-> st, returning |-> FALSE, raised |-> TRUE]
    ELSE IF RowsOf(st, url) # {}
    THEN [store |-> [k \in DOMAIN st |->
                        IF st[k].url = url
                        THEN [st[k] EXCEPT !.is_enabled = TRUE]
                        ELSE st[k]],
          returning |-> TRUE, raised |-> FALSE]
    ELSE [store |-> Append(st, Row(Len(st) + 1, url, TRUE, company_name, "created")),
          returning |-> TRUE, raised |-> FALSE]

\* INSERT INTO company_urls (url, company_name) VALUES (..)
\* ON CONFLICT (url) DO NOTHING RETURNING id, then commit; db_error: the
\* statement raises and the transaction is rolled back.
\* returning: whether fetchone() gave a row
InsertIfAbsent(st, url, company_name, db_error) ==
    IF db_error
    THEN [store |-> st, returning |-> FALSE, raised |-> TRUE]
    ELSE IF RowsOf(st, url) # {}
    THEN [store |-> st, returning |-> FALSE, raised |-> FALSE]
    ELSE [store |-> Append(st, Row(Len(st) + 1, url, TRUE, company_name, "created")),
          returning |-> TRUE, raised |-> FALSE]

\* an add_company that reports True whenever the statement did not raise
add_company_returns_NotRaised(r) == ~r.raised

\* the value add_company returns
add_company_returns(r) == IF r.raised THEN FALSE ELSE r.returning

\* an except clause without self.conn.rollback(): the transaction stays failed
rollback_Missing(failed) == failed

\* self.conn.rollback() in the except clause: the failed transaction is ended
rollback(failed) == FALSE

\* a statement raises when it fails, or when it is sent in a failed
\* transaction ("current transaction is aborted")
StatementRaises(p, db_error) == db_error \/ conn_failed[p]

\* add_company(company_name, job_board_url, _) in process p, called when
\* the ledgers of the processes are urls and companies
add_company_on(p, urls, companies, company_name, job_board_url, db_error) ==
    LET r == InsertIfAbsent(store, job_board_url, company_name,
                            StatementRaises(p, db_error))
    IN  /\ store' = r.store
        /\ conn_failed' = [conn_failed EXCEPT ![p] = IF r.raised THEN rollback(TRUE) ELSE FALSE]
        /\ IF r.returning
           THEN /\ checked_companies' =
                     [companies EXCEPT ![p] = @ \cup {Lower(company_name)}]
                /\ checked_urls' = [urls EXCEPT ![p] = @ \cup {job_board_url}]
           ELSE /\ checked_companies' = companies
                /\ checked_urls' = urls
        /\ true_returns' =
              IF add_company_returns(r)
              THEN [true_returns EXCEPT ![p][job_board_url] = @ + 1]
              ELSE true_returns
        /\ last_add' = [proc |-> p, url |-> job_board_url, company_name |-> company_name,
                        returned |-> add_company_returns(r),
                        present |-> RowsOf(store, job_board_url) # {},
                        raised |-> r.raised, db_error |-> db_error]
        /\ UNCHANGED store0

\* add_company(company_name, job_board_url, _) in process p
add_company(p, company_name, job_board_url, db_error) ==
    add_company_on(p, checked_urls, checked_companies, company_name, job_board_url,
                   db_error)

\* what add_company is about to return in the current state
WouldAdd(company_name, job_board_url, db_error) ==
    add_company_returns(InsertIfAbsent(store, job_board_url, company_name,
                                       StatementRaises("p1", db_error)))

NoCall == [proc |-> "none", url |-> Url("", "", ""), company_name |-> "",
           returned |-> FALSE, present |-> FALSE, raised |-> FALSE, db_error |-> FALSE]

DiscStoreUrls == {Url(GREENHOUSE, "acme", ""), Url(LEVER, "acme", "")}

DiscInit ==
    /\ store \in Stores(DiscStoreUrls, {"Acme"}, RowFlags)
    /\ checked_urls = [p \in Procs |-> {}]
    /\ checked_companies = [p \in Procs |-> {}]
    /\ last_add = NoCall
    /\ true_returns = [p \in Procs |-> [u \in AddUrls |-> 0]]
    /\ store0 = StoreUrls(store)
    /\ conn_failed = [p \in Procs |-> FALSE]

DiscIdle ==
    /\ checked_urls = [p \in Procs |-> {}]
    /\ checked_companies = [p \in Procs |-> {}]
    /\ last_add = NoCall
    /\ true_returns = [p \in Procs |-> [u \in AddUrls |-> 0]]
    /\ store0 = {}
    /\ conn_failed = [p \in Procs |-> FALSE]

\* a discovery strategy of process p upserts one company
AddCompany ==
    \E p \in Procs, company_name \in AddNames, job_board_url \in AddUrls,
       db_error \in BOOLEAN :
        /\ add_company(p, company_name, job_board_url, db_error)
        /\ UNCHANGED <<rdVars, chunkVars, clsVars, hashVars, pageVars, leverVars, stratVars, mainVars, probeVars, verifyVars, rowVars>>

\* a harvest worker (spider classifier or verify_urls) disables a url
HarvestDisable ==
    \E u \in StoreUrls(store) :
        /\ IsEnabled(store, u)
        /\ store' = UpdateDisabled(store, u)
        /\ UNCHANGED <<discVars, rdVars, chunkVars, clsVars, hashVars, pageVars, leverVars, stratVars, mainVars, probeVars, verifyVars, rowVars>>

----------------------------------------------------------------------------
(* Discovery: recursive_discovery, run by process p1                        *)

MaxDepth == 2
MaxSeeds == 2
MaxAnchors == 1

SEED_LIMIT == 50

EXAMPLE == "example.com"

\* caller-supplied seed urls
SeedUrls == {Url(GREENHOUSE, "acme", ""), Url(EXAMPLE, "careers", "")}

\* hrefs of the anchors a fetched page may hold; host "" is a relative href
\* ("/beta/jobs/1")
AnchorValues == {Url(GREENHOUSE, "acme", "/jobs/1"), Url(GREENHOUSE, "beta", ""),
                 Url(LEVER, "acme", ""), Url("", "beta", "/jobs/1")}

\* any(keyword in href.lower() for keyword in
\*     ['career', 'job', 'hiring', 'work', 'position'])
HasKeyword(href) ==
    \/ href.host \in {LEVER, JOB_BOARDS}          \* "jobs.", "job-boards."
    \/ href.rest = "/jobs/1"
    \/ href.slug = "careers"

\* href.startswith('/') -> urljoin(current_url, href)
Resolve(current_url, href) ==
    IF href.host = "" THEN [href EXCEPT !.host = current_url.host] ELSE href

\* 'boards.greenhouse.io' in link (also true of job-boards.greenhouse.io)
IsGreenhouseLink(link) == link.host \in {GREENHOUSE, JOB_BOARDS}

\* 'jobs.lever.co' in link
IsLeverLink(link) == link.host = LEVER

\* the job_related_links loop: potential_company_links of a page
RECURSIVE PotentialLinks(_, _)
PotentialLinks(current_url, anchors) ==
    IF anchors = <<>> THEN <<>>
    ELSE LET href == Resolve(current_url, Head(anchors))
             rest == PotentialLinks(current_url, Tail(anchors))
         IN  IF HasKeyword(Head(anchors)) /\ (IsGreenhouseLink(href) \/ IsLeverLink(href))
             THEN <<href>> \o rest
             ELSE rest

\* SELECT url FROM company_urls WHERE is_enabled = TRUE LIMIT 50, in any
\* of the orders the store may return
SeedQueryResults(st) ==
    LET enabled == {u \in StoreUrls(st) : IsEnabled(st, u)}
    IN  {q \in DistinctSeqs(enabled) :
            Len(q) = IF Cardinality(enabled) < SEED_LIMIT
                     THEN Cardinality(enabled) ELSE SEED_LIMIT}

\* a depth test that lets depth = max_depth through
DepthReached_Off(depth, max_depth) == depth > max_depth

\* if depth >= max_depth: continue
DepthReached(depth, max_depth) == depth >= max_depth

\* a ledger test that never finds the url
AlreadyChecked_Never(url, ledger) == FALSE

\* if current_url in self.checked_urls: continue
AlreadyChecked(url, ledger) == url \in ledger

\* responses of requests.get; raised: the call raised an exception
FetchResults ==
    [status : {200}, raised : {FALSE}, anchors : SeqsUpTo(AnchorValues, MaxAnchors)]
        \cup [status : {404}, raised : {FALSE}, anchors : {<<>>}]
        \cup [status : {0}, raised : {TRUE}, anchors : {<<>>}]

\* what the strategies that ran before recursive_discovery left in the
\* ledger of p1: scan_greenhouse_directory and scan_lever_companies add a
\* url to checked_urls whether or not it gets into the store
RdLedgers == {{}, {Url(GREENHOUSE, "acme", "")}}

RdStoreInit ==
    /\ store \in Stores(DiscStoreUrls, {"Acme"}, {<<TRUE, "created">>, <<FALSE, "updated">>})
    /\ \E ledger \in RdLedgers :
          checked_urls = [p \in Procs |-> IF p = "p1" THEN ledger ELSE {}]
    /\ checked_companies = [p \in Procs |-> {}]
    /\ last_add = NoCall
    /\ true_returns = [p \in Procs |-> [u \in AddUrls |-> 0]]
    /\ store0 = StoreUrls(store)
    /\ conn_failed = [p \in Procs |-> FALSE]

\* while recursive_discovery runs in p1, the other process upserts a company
ConcurrentAddCompany ==
    \E job_board_url \in AddUrls :
        /\ rd_pc \in {"loop", "links"}
        /\ add_company("p2", Title(job_board_url.slug), job_board_url, FALSE)
        /\ UNCHANGED <<rdVars, chunkVars, clsVars, hashVars, pageVars, leverVars, stratVars, mainVars, probeVars, verifyVars, rowVars>>

RdInit ==
    /\ rd_pc = "idle"
    /\ rd_max_depth = 0
    /\ url_queue = <<>>
    /\ rd_current = <<Url("", "", ""), 0>>
    /\ potential_company_links = <<>>
    /\ companies_found = 0
    /\ rd_fetched = <<>>
    /\ rd_dropped = {}
    /\ rd_start = {}
    /\ rd_adds = 0
    /\ rd_popped = 0
    /\ rd_requeued = {}

\* recursive_discovery(seed_urls, max_depth) up to the while loop
RD_Call ==
    /\ rd_pc = "idle"
    /\ \E seed_urls \in SeqsUpTo(SeedUrls, MaxSeeds), max_depth \in 0..MaxDepth :
          /\ rd_max_depth' = max_depth
          /\ \E seeds \in (IF seed_urls = <<>> THEN SeedQueryResults(store)
                           ELSE {seed_urls}) :
                url_queue' = [k \in DOMAIN seeds |-> <<seeds[k], 0>>]
    /\ companies_found' = 0
    /\ rd_pc' = "loop"
    /\ rd_start' = checked_urls["p1"]
    /\ UNCHANGED <<rd_current, potential_company_links, rd_fetched, rd_dropped,
                   rd_adds, rd_popped, rd_requeued>>
    /\ UNCHANGED <<store, discVars, chunkVars, clsVars, hashVars, pageVars, leverVars, stratVars, mainVars, probeVars, verifyVars, rowVars>>

\* one pass of the while loop up to the link loop: pop, the two skip tests,
\* the ledger mark and the fetch
RD_Pop ==
    /\ rd_pc = "loop"
    /\ url_queue # <<>>
    /\ LET current_url == Head(url_queue)[1]
           depth == Head(url_queue)[2]
       IN  /\ url_queue' = Tail(url_queue)
           /\ IF DepthReached(depth, rd_max_depth)
              THEN UNCHANGED <<checked_urls, rd_fetched, rd_dropped, rd_pc,
                               rd_current, potential_company_links>>
              ELSE IF AlreadyChecked(current_url, checked_urls["p1"])
              THEN /\ rd_dropped' = rd_dropped \cup {current_url}
                   /\ UNCHANGED <<checked_urls, rd_fetched, rd_pc, rd_current,
                                  potential_company_links>>
              ELSE /\ checked_urls' = [checked_urls EXCEPT !["p1"] = @ \cup {current_url}]
                   /\ rd_fetched' = Append(rd_fetched, current_url)
                   /\ UNCHANGED rd_dropped
                   /\ \E response \in FetchResults :
                         IF ~response.raised /\ response.status = 200
                         THEN /\ potential_company_links' =
                                    PotentialLinks(current_url, response.anchors)
                              /\ rd_current' = Head(url_queue)
                              /\ rd_pc' = "links"
                         ELSE UNCHANGED <<rd_pc, rd_current, potential_company_links>>
    /\ rd_popped' = rd_popped + 1
    /\ UNCHANGED <<rd_max_depth, companies_found, rd_start, rd_adds, rd_requeued>>
    /\ UNCHANGED <<store, checked_companies, last_add, true_returns, store0, conn_failed>>
    /\ UNCHANGED <<chunkVars, clsVars, hashVars, pageVars, leverVars, stratVars, mainVars, probeVars, verifyVars, rowVars>>

\* one pass of "for link in potential_company_links"
RD_Link ==
    /\ rd_pc = "links"
    /\ potential_company_links # <<>>
    /\ LET link == Head(potential_company_links)
           depth == rd_current[2]
           company_slug == link.slug              \* path_parts[1].strip()
           company_name == Title(company_slug)
           job_board_url == Url(IF IsGreenhouseLink(link) THEN GREENHOUSE ELSE LEVER,
                                company_slug, "")
       IN  /\ potential_company_links' = Tail(potential_company_links)
           /\ IF company_slug # ""
              THEN \E db_error \in BOOLEAN :
                     /\ add_company("p1", company_name, job_board_url, db_error)
                     /\ rd_adds' = rd_adds + 1
                     /\ IF WouldAdd(company_name, job_board_url, db_error)
                        THEN /\ companies_found' = companies_found + 1
                             /\ url_queue' =
                                   IF depth + 1 < rd_max_depth
                                   THEN Append(url_queue, <<job_board_url, depth + 1>>)
                                   ELSE url_queue
                             /\ rd_requeued' =
                                   IF depth + 1 < rd_max_depth
                                   THEN rd_requeued \cup {job_board_url}
                                   ELSE rd_requeued
                        ELSE UNCHANGED <<companies_found, url_queue, rd_requeued>>
              ELSE UNCHANGED <<store, discVars, companies_found, url_queue, rd_adds,
                               rd_requeued>>
    /\ UNCHANGED <<rd_pc, rd_max_depth, rd_current, rd_fetched, rd_dropped, rd_start,
                   rd_popped>>
    /\ UNCHANGED <<chunkVars, clsVars, hashVars, pageVars, leverVars, stratVars, mainVars, probeVars, verifyVars, rowVars>>

\* the link loop is over (time.sleep): back to the while test
RD_PageDone ==
    /\ rd_pc = "links"
    /\ potential_company_links = <<>>
    /\ rd_pc' = "loop"
    /\ UNCHANGED <<rd_max_depth, url_queue, rd_current, potential_company_links,
                   companies_found, rd_fetched, rd_dropped, rd_start, rd_adds, rd_popped,
                   rd_requeued>>
    /\ UNCHANGED <<store, discVars, chunkVars, clsVars, hashVars, pageVars, leverVars, stratVars, mainVars, probeVars, verifyVars, rowVars>>

\* a loop that is never left
WhileExits_Never(queue) == FALSE

\* "while url_queue" is left when the queue is empty
WhileExits(queue) == queue = <<>>

\* the queue is empty: return companies_found
RD_Return ==
    /\ rd_pc = "loop"
    /\ WhileExits(url_queue)
    /\ rd_pc' = "done"
    /\ UNCHANGED <<rd_max_depth, url_queue, rd_current, potential_company_links,
                   companies_found, rd_fetched, rd_dropped, rd_start, rd_adds, rd_popped,
                   rd_requeued>>
    /\ UNCHANGED <<store, discVars, chunkVars, clsVars, hashVars, pageVars, leverVars, stratVars, mainVars, probeVars, verifyVars, rowVars>>

----------------------------------------------------------------------------
(* Discovery strategies of process p1: scan_greenhouse_directory            *)

MaxListing == 2

\* "abcdefghijklmnopqrstuvwxyz"
Alphabet ==
    <<"a", "b", "c", "d", "e", "f", "g", "h", "i", "j", "k", "l", "m",
      "n", "o", "p", "q", "r", "s", "t", "u", "v", "w", "x", "y", "z">>

\* the letters for which the directory of the model lists companies
ListingLetters == {"a", "b"}

\* stands for the missing href attribute (no split gives the empty list)
NoHref == <<>>

\* the '.company-list a' elements of the model: link.text and link['href']
\* split at '/'; NoHref: the anchor has no href attribute
CompanyAnchors ==
    {[text |-> "Acme", href |-> <<"", "acme">>],
     [text |-> "Beta", href |-> <<"https:", "", GREENHOUSE, "beta">>],
     [text |-> "Beta", href |-> NoHref]}

\* responses of requests.get for a listing page
ListingResponses(letter) ==
    [status : {200}, raised : {FALSE},
     company_links : IF letter \in ListingLetters
                     THEN SeqsUpTo(CompanyAnchors, MaxListing) ELSE {<<>>}]
        \cup [status : {404, 500}, raised : {FALSE}, company_links : {<<>>}]
        \cup [status : {0}, raised : {TRUE}, company_links : {<<>>}]

\* a slug taken from the first path segment of a relative href
greenhouse_url_FirstSegment(link) == Url(GREENHOUSE, link.href[2], "")

\* f"https://boards.greenhouse.io/{link['href'].split('/')[-1]}"
greenhouse_url(link) == Url(GREENHOUSE, link.href[Len(link.href)], "")

\* a scan that gives up at the first letter that fails
NextLetter_StopOnFailure(letter, failed) ==
    IF failed THEN Len(Alphabet) + 1 ELSE letter + 1

\* the for loop over the alphabet: the letter after the current one,
\* whether or not the current one failed
NextLetter(letter, failed) == letter + 1

\* line 247: companies_found += 1 after every add_company call
ScanCount(count, added) == count + 1

StratInit ==
    /\ st_pc = "idle"
    /\ st_count = 0
    /\ st_returned = 0
    /\ st_rows0 = <<>>
    /\ st_raised = FALSE
    /\ sc_letter = 1
    /\ sc_attempts = <<>>
    /\ sc_failed = FALSE
    /\ sc_links = <<>>
    /\ sc_listed = <<>>
    /\ st_strategy = "none"
    /\ se_board_type = "greenhouse"
    /\ se_status = 0
    /\ se_results = <<>>
    /\ se_calls = 0

StratIdle == StratInit

\* scan_greenhouse_directory() up to the loop
ScanCall ==
    /\ st_pc = "idle"
    /\ st_pc' = "scan"
    /\ st_count' = 0
    /\ st_rows0' = store
    /\ sc_letter' = 1
    /\ st_strategy' = "scan"
    /\ UNCHANGED <<st_returned, st_raised, sc_attempts, sc_failed, sc_links, sc_listed>>
    /\ UNCHANGED <<se_board_type, se_status, se_results, se_calls>>
    /\ UNCHANGED <<store, discVars>>
    /\ UNCHANGED <<chunkVars, clsVars, rdVars, hashVars, pageVars, leverVars, mainVars, probeVars, verifyVars, rowVars>>

\* requests.get of the listing page of the current letter
ScanFetch ==
    /\ st_pc = "scan"
    /\ sc_letter <= Len(Alphabet)
    /\ sc_attempts' = Append(sc_attempts, Alphabet[sc_letter])
    /\ \E response \in ListingResponses(Alphabet[sc_letter]) :
          IF ~response.raised /\ response.status = 200
          THEN /\ sc_links' = response.company_links
               /\ sc_listed' = IF response.company_links = <<>> THEN sc_listed
                               ELSE Append(sc_listed, response.company_links)
               /\ st_pc' = "scan_links"
               /\ UNCHANGED <<sc_letter, sc_failed>>
          ELSE /\ sc_letter' = NextLetter(sc_letter, TRUE)
               /\ sc_failed' = TRUE
               /\ UNCHANGED <<sc_links, sc_listed, st_pc>>
    /\ UNCHANGED <<st_count, st_returned, st_rows0, st_raised>>
    /\ UNCHANGED <<store, discVars>>
    /\ UNCHANGED <<st_strategy, se_board_type, se_status, se_results, se_calls>>
    /\ UNCHANGED <<chunkVars, clsVars, rdVars, hashVars, pageVars, leverVars, mainVars, probeVars, verifyVars, rowVars>>

\* one pass of "for link in company_links"; link['href'] of an anchor
\* without href raises KeyError, which ends the work on this letter
ScanLink ==
    /\ st_pc = "scan_links"
    /\ sc_links # <<>>
    /\ LET link == Head(sc_links)
       IN  IF link.href = NoHref
           THEN /\ sc_links' = <<>>
                /\ sc_letter' = NextLetter(sc_letter, TRUE)
                /\ sc_failed' = TRUE
                /\ st_pc' = "scan"
                /\ UNCHANGED <<st_count, st_raised, store, discVars>>
           ELSE \E db_error \in BOOLEAN :
                  /\ add_company_on("p1",
                        [checked_urls EXCEPT !["p1"] = @ \cup {greenhouse_url(link)}],
                        [checked_companies EXCEPT !["p1"] = @ \cup {Lower(link.text)}],
                        link.text, greenhouse_url(link), db_error)
                  /\ st_count' = ScanCount(st_count,
                                     WouldAdd(link.text, greenhouse_url(link), db_error))
                  /\ st_raised' = (st_raised \/ db_error)
                  /\ sc_links' = Tail(sc_links)
                  /\ UNCHANGED <<sc_letter, sc_failed, st_pc>>
    /\ UNCHANGED <<st_returned, st_rows0, sc_attempts, sc_listed>>
    /\ UNCHANGED <<st_strategy, se_board_type, se_status, se_results, se_calls>>
    /\ UNCHANGED <<chunkVars, clsVars, rdVars, hashVars, pageVars, leverVars, mainVars, probeVars, verifyVars, rowVars>>

\* the links of the letter are done (time.sleep): on to the next letter
ScanLetterDone ==
    /\ st_pc = "scan_links"
    /\ sc_links = <<>>
    /\ sc_letter' = NextLetter(sc_letter, FALSE)
    /\ st_pc' = "scan"
    /\ UNCHANGED <<st_count, st_returned, st_rows0, st_raised, sc_attempts, sc_failed,
                   sc_links, sc_listed>>
    /\ UNCHANGED <<store, discVars>>
    /\ UNCHANGED <<st_strategy, se_board_type, se_status, se_results, se_calls>>
    /\ UNCHANGED <<chunkVars, clsVars, rdVars, hashVars, pageVars, leverVars, mainVars, probeVars, verifyVars, rowVars>>

\* the alphabet is exhausted: return companies_found
ScanReturn ==
    /\ st_pc = "scan"
    /\ sc_letter > Len(Alphabet)
    /\ st_returned' = st_count
    /\ st_pc' = "done"
    /\ UNCHANGED <<st_count, st_rows0, st_raised, sc_letter, sc_attempts, sc_failed,
                   sc_links, sc_listed>>
    /\ UNCHANGED <<store, discVars>>
    /\ UNCHANGED <<st_strategy, se_board_type, se_status, se_results, se_calls>>
    /\ UNCHANGED <<chunkVars, clsVars, rdVars, hashVars, pageVars, leverVars, mainVars, probeVars, verifyVars, rowVars>>

----------------------------------------------------------------------------
(* Discovery strategies of process p1: search_companies                     *)

MaxResults == 2
MaxSearches == 1

\* a '.g' result without an anchor, or whose anchor has no href
NoLink == Url("", "", "")

\* the '.g' elements of a result page: href of the first anchor and text of
\* the h3 (None: no h3)
SearchResults ==
    [href : {Url(GREENHOUSE, "acme", "/jobs/1"), Url(GREENHOUSE, "beta", ""),
             Url(GREENHOUSE, "Acme", ""),
             Url(JOB_BOARDS, "acme", ""), Url(LEVER, "acme", ""),
             Url(EXAMPLE, "careers", ""), NoLink},
     title : {"Acme", None}]

\* responses of requests.get(search_url)
SearchResponses ==
    [status : {200}, raised : {FALSE}, results : SeqsUpTo(SearchResults, MaxResults)]
        \cup [status : {429, 503}, raised : {FALSE}, results : {<<>>}]
        \cup [status : {0}, raised : {TRUE}, results : {<<>>}]

\* the urls search_companies can pass to add_company
SearchUrls ==
    {Url(h, r.href.slug, "") : h \in {GREENHOUSE, LEVER},
                               r \in {x \in SearchResults : x.href # NoLink}}

\* whether the result is a link of the board type searched for
IsBoardLink(board_type, link) ==
    \/ board_type = "greenhouse" /\ IsGreenhouseLink(link)
    \/ board_type = "lever" /\ IsLeverLink(link)

\* f"https://boards.greenhouse.io/{company_slug}" resp.
\* f"https://jobs.lever.co/{company_slug}"
SearchBoardUrl(board_type, link) ==
    Url(IF board_type = "greenhouse" THEN GREENHOUSE ELSE LEVER, link.slug, "")

\* a search that goes on to read the body of a response that is not 200
SearchOk_AnyStatus(response) == ~response.raised

\* if response.status_code == 200 (the request did not raise)
SearchOk(response) == ~response.raised /\ response.status = 200

\* search_companies(query, board_type) up to the loop over the results
SearchCall ==
    /\ \/ st_pc = "idle"
       \/ st_pc = "done" /\ st_strategy = "search"
    /\ se_calls < MaxSearches
    /\ se_calls' = se_calls + 1
    /\ st_strategy' = "search"
    /\ st_count' = 0
    /\ st_rows0' = store
    /\ st_raised' = FALSE
    /\ \E board_type \in {"greenhouse", "lever"}, response \in SearchResponses :
          /\ se_board_type' = board_type
          /\ se_status' = response.status
          /\ IF SearchOk(response)
             THEN /\ se_results' = response.results
                  /\ st_pc' = "search_results"
                  /\ UNCHANGED st_returned
             ELSE /\ se_results' = <<>>
                  /\ st_returned' = 0
                  /\ st_pc' = "done"
    /\ UNCHANGED <<sc_letter, sc_attempts, sc_failed, sc_links, sc_listed>>
    /\ UNCHANGED <<store, discVars>>
    /\ UNCHANGED <<chunkVars, clsVars, rdVars, hashVars, pageVars, leverVars, mainVars, probeVars, verifyVars, rowVars>>

\* one pass of "for result in search_results"
SearchResult ==
    /\ st_pc = "search_results"
    /\ se_results # <<>>
    /\ se_results' = Tail(se_results)
    /\ LET link == Head(se_results).href
           title == Head(se_results).title
           company_name == IF title = None THEN "Unknown" ELSE title
           job_board_url == SearchBoardUrl(se_board_type, link)
       IN  IF /\ link # NoLink
              /\ IsBoardLink(se_board_type, link)
              /\ link \notin checked_urls["p1"]
              /\ link.slug # ""
           THEN \E db_error \in BOOLEAN :
                  /\ add_company_on("p1",
                        [checked_urls EXCEPT !["p1"] = @ \cup {job_board_url}],
                        checked_companies, company_name, job_board_url, db_error)
                  /\ st_count' = IF WouldAdd(company_name, job_board_url, db_error)
                                 THEN st_count + 1 ELSE st_count
                  /\ st_raised' = (st_raised \/ db_error)
           ELSE UNCHANGED <<st_count, st_raised, store, discVars>>
    /\ UNCHANGED <<st_pc, st_returned, st_rows0, st_strategy, se_board_type, se_status,
                   se_calls>>
    /\ UNCHANGED <<sc_letter, sc_attempts, sc_failed, sc_links, sc_listed>>
    /\ UNCHANGED <<chunkVars, clsVars, rdVars, hashVars, pageVars, leverVars, mainVars, probeVars, verifyVars, rowVars>>

\* the results are done: return companies_found
SearchReturn ==
    /\ st_pc = "search_results"
    /\ se_results = <<>>
    /\ st_returned' = st_count
    /\ st_pc' = "done"
    /\ UNCHANGED <<st_count, st_rows0, st_raised, st_strategy, se_board_type, se_status,
                   se_results, se_calls>>
    /\ UNCHANGED <<sc_letter, sc_attempts, sc_failed, sc_links, sc_listed>>
    /\ UNCHANGED <<store, discVars>>
    /\ UNCHANGED <<chunkVars, clsVars, rdVars, hashVars, pageVars, leverVars, mainVars, probeVars, verifyVars, rowVars>>

----------------------------------------------------------------------------
(* Discovery strategies of process p1: scan_lever_companies (probe by name) *)

MaxCompanies == 2

\* names as TOP_TECH_COMPANIES holds them: one word or several, and a name
\* may occur twice in the list
ProbeNames == {"Acme", "Beta Labs"}

\* str.replace(" ", sep) on a lower-cased name
ReplaceSpaces(lower, sep) ==
    CASE lower = "beta labs" /\ sep = "" -> "betalabs"
      [] lower = "beta labs" /\ sep = "-" -> "beta-labs"
      [] OTHER -> lower

\* company_variations: no-space, hyphenated, with spaces; each with its rank
company_variations(company) ==
    << [k |-> 1, slug |-> ReplaceSpaces(Lower(company), "")],
       [k |-> 2, slug |-> ReplaceSpaces(Lower(company), "-")],
       [k |-> 3, slug |-> Lower(company)] >>

\* f"https://jobs.lever.co/{company_slug}"
lever_url(company_slug) == Url(LEVER, company_slug, "")

ProbeUrls ==
    {lever_url(company_variations(c)[k].slug) : c \in ProbeNames, k \in 1..3}

\* outcomes of requests.get(lever_url): a status, or 0 when it raised
ProbeStatuses == {200, 404, 0}

\* a loop that goes on after a 200
AfterResponse_NoBreak(status, rest) == rest

\* the variations left for the company after a response: break after a 200
AfterResponse(status, rest) == IF status = 200 THEN <<>> ELSE rest

ProbeInit ==
    /\ pb_companies \in SeqsUpTo(ProbeNames, MaxCompanies)
    /\ pb_pc = "idle"
    /\ pb_i = 1
    /\ pb_variations = <<>>
    /\ pb_fetched = <<>>
    /\ pb_count = 0
    /\ pb_returned = -1

ProbeIdle ==
    /\ pb_companies = <<>>
    /\ pb_pc = "idle"
    /\ pb_i = 1
    /\ pb_variations = <<>>
    /\ pb_fetched = <<>>
    /\ pb_count = 0
    /\ pb_returned = -1

\* what the ledger of p1 holds when scan_lever_companies is called
ProbeStoreInit ==
    /\ store \in Stores({lever_url("acme")}, {"Acme"},
                        {<<TRUE, "created">>, <<FALSE, "updated">>})
    /\ \E urls \in {{}, {lever_url("betalabs")}}, names \in {{}, {"acme"}} :
          /\ checked_urls = [p \in Procs |-> IF p = "p1" THEN urls ELSE {}]
          /\ checked_companies = [p \in Procs |-> IF p = "p1" THEN names ELSE {}]
    /\ last_add = NoCall
    /\ true_returns = [p \in Procs |-> [u \in AddUrls \cup ProbeUrls |-> 0]]
    /\ store0 = StoreUrls(store)
    /\ conn_failed = [p \in Procs |-> FALSE]

\* scan_lever_companies() up to the loop over the companies
ProbeCall ==
    /\ pb_pc = "idle"
    /\ pb_pc' = "companies"
    /\ pb_count' = 0
    /\ UNCHANGED <<pb_companies, pb_i, pb_variations, pb_fetched, pb_returned>>
    /\ UNCHANGED <<store, discVars>>
    /\ UNCHANGED <<chunkVars, clsVars, rdVars, hashVars, pageVars, leverVars, stratVars, mainVars, verifyVars, rowVars>>

\* the head of the loop over the companies: a company whose lower-cased
\* name is in checked_companies is passed over
ProbeCompany ==
    /\ pb_pc = "companies"
    /\ pb_i <= Len(pb_companies)
    /\ IF Lower(pb_companies[pb_i]) \in checked_companies["p1"]
       THEN /\ pb_i' = pb_i + 1
            /\ UNCHANGED <<pb_pc, pb_variations>>
       ELSE /\ pb_variations' = company_variations(pb_companies[pb_i])
            /\ pb_pc' = "variations"
            /\ UNCHANGED pb_i
    /\ UNCHANGED <<pb_companies, pb_fetched, pb_count, pb_returned>>
    /\ UNCHANGED <<store, discVars>>
    /\ UNCHANGED <<chunkVars, clsVars, rdVars, hashVars, pageVars, leverVars, stratVars, mainVars, verifyVars, rowVars>>

\* one pass of the loop over company_variations
ProbeVariation ==
    /\ pb_pc = "variations"
    /\ pb_variations # <<>>
    /\ LET company == pb_companies[pb_i]
           v == Head(pb_variations)
           url == lever_url(v.slug)
           urls == [checked_urls EXCEPT !["p1"] = @ \cup {url}]
       IN  IF url \in checked_urls["p1"]
           THEN /\ pb_variations' = Tail(pb_variations)
                /\ UNCHANGED <<pb_fetched, pb_count, store, discVars>>
           ELSE \E status \in ProbeStatuses, db_error \in BOOLEAN :
                  /\ status # 200 => ~db_error
                  /\ pb_fetched' = Append(pb_fetched,
                        [i |-> pb_i, k |-> v.k, url |-> url, status |-> status,
                         name_checked |-> Lower(company) \in checked_companies["p1"]])
                  /\ pb_variations' = AfterResponse(status, Tail(pb_variations))
                  /\ IF status = 200
                     THEN /\ add_company_on("p1", urls, checked_companies, company, url,
                                            db_error)
                          /\ pb_count' = ScanCount(pb_count,
                                                   WouldAdd(company, url, db_error))
                     ELSE /\ checked_urls' = urls
                          /\ UNCHANGED <<pb_count, store, checked_companies, last_add,
                                         true_returns, store0, conn_failed>>
    /\ UNCHANGED <<pb_companies, pb_pc, pb_i, pb_returned>>
    /\ UNCHANGED <<chunkVars, clsVars, rdVars, hashVars, pageVars, leverVars, stratVars, mainVars, verifyVars, rowVars>>

\* the loop over the variations is over: next company
ProbeCompanyDone ==
    /\ pb_pc = "variations"
    /\ pb_variations = <<>>
    /\ pb_i' = pb_i + 1
    /\ pb_pc' = "companies"
    /\ UNCHANGED <<pb_companies, pb_variations, pb_fetched, pb_count, pb_returned>>
    /\ UNCHANGED <<store, discVars>>
    /\ UNCHANGED <<chunkVars, clsVars, rdVars, hashVars, pageVars, leverVars, stratVars, mainVars, verifyVars, rowVars>>

\* the list is exhausted: return companies_found
ProbeReturn ==
    /\ pb_pc = "companies"
    /\ pb_i > Len(pb_companies)
    /\ pb_returned' = pb_count
    /\ pb_pc' = "done"
    /\ UNCHANGED <<pb_companies, pb_i, pb_variations, pb_fetched, pb_count>>
    /\ UNCHANGED <<store, discVars>>
    /\ UNCHANGED <<chunkVars, clsVars, rdVars, hashVars, pageVars, leverVars, stratVars, mainVars, verifyVars, rowVars>>

----------------------------------------------------------------------------
(* The liveness check of a url: the try statement of verify_urls and         *)
(* verify_url_before_adding (HEAD, GET if HEAD raises, status test)          *)

MaxVerify == 2

\* status codes a request may be answered with
VerifyStatuses == {200, 399, 400, 404}

\* the outcome of a request: a response with a status, or a
\* requests.exceptions.RequestException
RequestOutcomes ==
    {[raised |-> TRUE, status |-> 0]} \cup
    {[raised |-> FALSE, status |-> c] : c \in VerifyStatuses}

\* no request was made
NotRequested == [raised |-> FALSE, status |-> 0]

\* a fallback that is also taken when HEAD is answered with an error status
NeedsGet_OnErrorStatus(head) == head.raised \/ head.status >= 400

\* except requests.exceptions.RequestException around requests.head
NeedsGet(head) == head.raised

\* 200 <= response.status_code < 400
IsAliveStatus(status_code) == 200 <= status_code /\ status_code < 400

\* the verdict on a url: a RequestException of the GET reaches the outer
\* except clause (invalid, or return False)
IsAlive(head, get_called, get) ==
    IF get_called
    THEN ~get.raised /\ IsAliveStatus(get.status)
    ELSE IsAliveStatus(head.status)

VerifyInit ==
    /\ vf_caller = "none"
    /\ vf_pc = "idle"
    /\ vf_left = 0
    /\ vf_head = NotRequested
    /\ vf_get = [called |-> FALSE, outcome |-> NotRequested]
    /\ vf_log = <<>>

VerifyIdle == VerifyInit

\* verify_urls(urls_to_verify) with 1..MaxVerify urls, or
\* verify_url_before_adding(url)
VerifyCall ==
    /\ vf_pc = "idle"
    /\ \E caller \in {"verify_urls", "verify_url_before_adding"} :
          /\ vf_caller' = caller
          /\ \E n \in 1..MaxVerify :
                /\ caller = "verify_url_before_adding" => n = 1
                /\ vf_left' = n
    /\ vf_pc' = "head"
    /\ UNCHANGED <<vf_head, vf_get, vf_log>>
    /\ UNCHANGED <<chunkVars, store, clsVars, discVars, rdVars, hashVars, pageVars, leverVars, stratVars, mainVars, probeVars, rowVars>>

\* requests.head(url, ...)
VerifyHead ==
    /\ vf_pc = "head"
    /\ \E head \in RequestOutcomes :
          /\ vf_head' = head
          /\ vf_pc' = IF NeedsGet(head) THEN "get" ELSE "decide"
    /\ vf_get' = [called |-> FALSE, outcome |-> NotRequested]
    /\ UNCHANGED <<vf_caller, vf_left, vf_log>>
    /\ UNCHANGED <<chunkVars, store, clsVars, discVars, rdVars, hashVars, pageVars, leverVars, stratVars, mainVars, probeVars, rowVars>>

\* requests.get(url, ...) in the except clause of the HEAD
VerifyGet ==
    /\ vf_pc = "get"
    /\ \E get \in RequestOutcomes :
          vf_get' = [called |-> TRUE, outcome |-> get]
    /\ vf_pc' = "decide"
    /\ UNCHANGED <<vf_caller, vf_left, vf_head, vf_log>>
    /\ UNCHANGED <<chunkVars, store, clsVars, discVars, rdVars, hashVars, pageVars, leverVars, stratVars, mainVars, probeVars, rowVars>>

\* the status test, or the outer except clause: the url goes to valid_urls
\* or invalid_urls (verify_urls), True or False is returned
\* (verify_url_before_adding)
VerifyDecide ==
    /\ vf_pc = "decide"
    /\ vf_log' = Append(vf_log,
                    [head |-> vf_head, get_called |-> vf_get.called,
                     get |-> vf_get.outcome,
                     alive |-> IsAlive(vf_head, vf_get.called, vf_get.outcome)])
    /\ vf_left' = vf_left - 1
    /\ vf_pc' = IF vf_left' = 0 THEN "done" ELSE "head"
    /\ UNCHANGED <<vf_caller, vf_head, vf_get>>
    /\ UNCHANGED <<chunkVars, store, clsVars, discVars, rdVars, hashVars, pageVars, leverVars, stratVars, mainVars, probeVars, rowVars>>

----------------------------------------------------------------------------
(* Work distributor: get_url_chunks *)

MaxUrls == 4
MaxChunkSize == 3

ChunkUrlValues == {Url(GREENHOUSE, "acme", ""), Url(GREENHOUSE, "beta", "/"),
                   Url(LEVER, "acme", "")}

\* the for loop of get_url_chunks and the remainder test that follows it;
\* i is the 0-based index of enumerate()
RECURSIVE ChunkLoop(_, _, _, _, _)
ChunkLoop(L, cs, i, single_chunk, chunks) ==
    IF i = Len(L)
    THEN IF Len(single_chunk) > 0 THEN Append(chunks, single_chunk) ELSE chunks
    ELSE LET careers_page_url == L[i + 1][1]
             appended == Append(single_chunk, careers_page_url)
         IN  IF i % cs = cs - 1
             THEN ChunkLoop(L, cs, i + 1, <<>>, Append(chunks, appended))
             ELSE ChunkLoop(L, cs, i + 1, appended, chunks)

\* a version that forgets the remainder after the loop
get_url_chunks_NoRemainder(L, n) ==
    LET cs == Max(1, n)
    IN  [k \in 1..(Len(L) \div cs) |-> [m \in 1..cs |-> L[(k - 1) * cs + m][1]]]

get_url_chunks(L, n) ==
    IF L = <<>> THEN <<>> ELSE ChunkLoop(L, Max(1, n), 0, <<>>, <<>>)

ChunkInit ==
    /\ careers_page_urls \in SeqsUpTo({<<u>> : u \in ChunkUrlValues}, MaxUrls)
    /\ chunk_size \in -1..MaxChunkSize
    /\ url_chunks = <<>>
    /\ chunk_pc = "call"

ChunkIdle ==
    /\ careers_page_urls = <<>>
    /\ chunk_size = 1
    /\ url_chunks = <<>>
    /\ chunk_pc = "idle"

GetUrlChunks ==
    /\ chunk_pc = "call"
    /\ url_chunks' = get_url_chunks(careers_page_urls, chunk_size)
    /\ chunk_pc' = "done"
    /\ UNCHANGED <<careers_page_urls, chunk_size>>
    /\ UNCHANGED <<store, clsVars, discVars, rdVars, hashVars, pageVars, leverVars, stratVars, mainVars, probeVars, verifyVars, rowVars>>

----------------------------------------------------------------------------
(* Record ids: hash_ids = Hashids(salt, alphabet) and determine_row_id.    *)
(* Strings are sequences of code points (ord), so that the arithmetic the  *)
(* hashids package does on characters is the arithmetic done here.         *)

\* "abcdefghijklmnopqrstuvwxyz1234567890", the alphabet argument
HASH_ALPHABET == [k \in 1..26 |-> 96 + k] \o [k \in 1..9 |-> 48 + k] \o <<48>>

\* 'cfhistuCFHISTU', the separator candidates of hashids
HASH_SEPARATORS == <<99, 102, 104, 105, 115, 116, 117, 67, 70, 72, 73, 83, 84, 85>>

\* values of HASHIDS_SALT: '' and 'salt'
Salts == {<<>>, <<115, 97, 108, 116>>}

\* int(ceil(float(dividend) / divisor)) for the divisor num/den
index_from_ratio(dividend, num, den) == (dividend * den + num - 1) \div num

\* hashids._hash: number written in the base of the alphabet
RECURSIVE hash(_, _)
hash(number, alphabet) ==
    LET digit == <<alphabet[(number % Len(alphabet)) + 1]>>
    IN  IF number \div Len(alphabet) = 0 THEN digit
        ELSE hash(number \div Len(alphabet), alphabet) \o digit

\* the for loop of hashids._reorder; i and index are 0-based
RECURSIVE ReorderLoop(_, _, _, _, _)
ReorderLoop(string, salt, i, index, integer_sum) ==
    IF i < 1 THEN string
    ELSE LET integer == salt[index + 1]
             sum == integer_sum + integer
             j == (integer + index + sum) % i
         IN  ReorderLoop([string EXCEPT ![i + 1] = string[j + 1], ![j + 1] = string[i + 1]],
                         salt, i - 1, (index + 1) % Len(salt), sum)

\* hashids._reorder: shuffle string by salt
reorder(string, salt) ==
    IF Len(salt) = 0 THEN string
    ELSE ReorderLoop(string, salt, Len(string) - 1, 0, 0)

\* Hashids.__init__(salt, min_length = 0, alphabet): the alphabet,
\* separators and guards the encoder works with
Hashids(salt, alphabet_arg) ==
    LET separators0 == SelectSeq(HASH_SEPARATORS, LAMBDA x : x \in Range(alphabet_arg))
        alphabet0 == SelectSeq(alphabet_arg, LAMBDA x : x \notin Range(separators0))
        separators1 == reorder(separators0, salt)
        \* RATIO_SEPARATORS = 3.5
        missing == index_from_ratio(Len(alphabet0), 7, 2) - Len(separators1)
        separators == IF missing > 0
                      THEN separators1 \o SubSeq(alphabet0, 1, missing)
                      ELSE separators1
        alphabet1 == IF missing > 0
                     THEN SubSeq(alphabet0, missing + 1, Len(alphabet0))
                     ELSE alphabet0
        alphabet2 == reorder(alphabet1, salt)
        \* RATIO_GUARDS = 12
        num_guards == index_from_ratio(Len(alphabet2), 12, 1)
    IN  [salt |-> salt,
         alphabet |-> SubSeq(alphabet2, num_guards + 1, Len(alphabet2)),
         guards |-> SubSeq(alphabet2, 1, num_guards),
         separators |-> separators]

\* sum(x % (i + 100) for i, x in enumerate(values))
RECURSIVE ValuesHash(_, _)
ValuesHash(values, k) ==
    IF k > Len(values) THEN 0
    ELSE (values[k] % ((k - 1) + 100)) + ValuesHash(values, k + 1)

\* the for loop of hashids._encode; k is the 1-based position in values
RECURSIVE EncodeLoop(_, _, _, _, _, _, _)
EncodeLoop(values, k, salt, lottery, alphabet, separators, encoded) ==
    IF k > Len(values) THEN encoded
    ELSE LET alphabet_salt == SubSeq(<<lottery>> \o salt \o alphabet, 1, Len(alphabet))
             shuffled == reorder(alphabet, alphabet_salt)
             last == hash(values[k], shuffled)
             value == values[k] % (last[1] + (k - 1))
         IN  EncodeLoop(values, k + 1, salt, lottery, shuffled, separators,
                        encoded \o last \o <<separators[(value % Len(separators)) + 1]>>)

\* Hashids.encode(*values); min_length is 0, so no guard is added.
\* '' when a value is not an unsigned integer
encode(h, values) ==
    IF values = <<>> \/ \E k \in DOMAIN values : values[k] < 0 THEN <<>>
    ELSE LET lottery == h.alphabet[(ValuesHash(values, 1) % Len(h.alphabet)) + 1]
             encoded == EncodeLoop(values, 1, h.salt, lottery, h.alphabet,
                                   h.separators, <<lottery>>)
         IN  SubSeq(encoded, 1, Len(encoded) - 1)

\* utils/general.py: the module-level encoder of a process
hash_ids(salt) == Hashids(salt, HASH_ALPHABET)

\* a row id that leaves url_id out
determine_row_id_NoUrlId(salt, spider_id, i, url_id, created_at) ==
    encode(hash_ids(salt), <<spider_id, i, created_at>>)

\* determine_row_id(i) of a spider with the given spider_id, url_id and
\* created_at
determine_row_id(salt, spider_id, i, url_id, created_at) ==
    encode(hash_ids(salt), <<spider_id, i, url_id, created_at>>)

MaxIndex == 2
MaxUrlId == 1
MaxClock == 1

\* int(time.time()) when the spiders of the model are constructed
START_TIME == 1700000000

\* spider_id of the departments, outline and lever spiders
SpiderIds == {1, 2, 3}

HashInit ==
    /\ hash_salt \in Salts
    /\ id_calls = <<>>

HashIdle ==
    /\ hash_salt = <<>>
    /\ id_calls = <<>>

\* a spider of the process computes the id of a record
DetermineRowId ==
    \E spider_id \in SpiderIds, i \in 0..MaxIndex, url_id \in 0..MaxUrlId,
       created_at \in START_TIME..(START_TIME + MaxClock) :
        /\ Len(id_calls) < 2
        /\ id_calls' = Append(id_calls,
              [spider_id |-> spider_id, i |-> i, url_id |-> url_id,
               created_at |-> created_at,
               id |-> determine_row_id(hash_salt, spider_id, i, url_id, created_at)])
        /\ UNCHANGED hash_salt
        /\ UNCHANGED <<chunkVars, store, clsVars, discVars, rdVars, pageVars, leverVars, stratVars, mainVars, probeVars, verifyVars, rowVars>>

----------------------------------------------------------------------------
(* A spider on a new-format (job-boards) Greenhouse board: the job-boards   *)
(* branch of parse in the departments and the outline spider.               *)

MaxPages == 2
MaxPosts == 1
MaxOpenings == 1

\* a div.job-posts of a page: whether it has a heading child, and its
\* number of td.cell job rows
JobPosts == [heading : BOOLEAN, openings : 0..MaxOpenings]

\* the pages the board serves for ?page=1, 2, ..; beyond them every page
\* is empty
Boards == SeqsUpTo(SeqsUpTo(JobPosts, MaxPosts), MaxPages)

\* selector.xpath("//div[(@class='job-posts')]") on the response for page p
PageOf(board, p) == IF p \in DOMAIN board THEN board[p] ELSE <<>>

\* len(str(n)) of a natural number
RECURSIVE StrLen(_)
StrLen(n) == IF n < 10 THEN 1 ELSE 1 + StrLen(n \div 10)

RECURSIVE Pow10(_)
Pow10(n) == IF n = 0 THEN 1 ELSE 10 * Pow10(n - 1)

\* int(str(i * 100) + str(j * 100) + str(page_number))
OutlineRowIndex(i, j, page) ==
    (i * 100 * Pow10(StrLen(j * 100)) + j * 100) * Pow10(StrLen(page)) + page

\* departments spider: one record per heading text of the page, numbered by
\* enumerate(all_departments)
RECURSIVE DepartmentItems(_, _, _)
DepartmentItems(job_posts, page, i) ==
    IF job_posts = <<>> THEN <<>>
    ELSE IF Head(job_posts).heading
    THEN <<[page |-> page, i |-> i, j |-> 0, row |-> i]>>
             \o DepartmentItems(Tail(job_posts), page, i + 1)
    ELSE DepartmentItems(Tail(job_posts), page, i)

\* outline spider: the records of the openings of one job_post
OpeningItems(page, i, openings) ==
    [j \in 1..openings |->
        [page |-> page, i |-> i, j |-> j - 1, row |-> OutlineRowIndex(i, j - 1, page)]]

\* outline spider: the loop over enumerate(job_posts). get_department_ids
\* raises TypeError (company_name + "_" + None) on a job_post without a
\* heading, which ends the generator: raised is TRUE and items holds what
\* was yielded before
RECURSIVE OutlineLoop(_, _, _)
OutlineLoop(job_posts, page, i) ==
    IF i >= Len(job_posts) THEN [items |-> <<>>, raised |-> FALSE]
    ELSE IF ~job_posts[i + 1].heading THEN [items |-> <<>>, raised |-> TRUE]
    ELSE LET rest == OutlineLoop(job_posts, page, i + 1)
         IN  [items |-> OpeningItems(page, i, job_posts[i + 1].openings) \o rest.items,
              raised |-> rest.raised]

\* whether parse yields the request for the next page:
\* len(all_departments) != 0 resp. len(job_posts) != 0, reached only when
\* the loop before it did not raise
FollowsNextPage(spider, job_posts, out) ==
    /\ ~out.raised
    /\ IF spider = "departments" THEN out.items # <<>> ELSE Len(job_posts) # 0

\* what the job-boards branch of parse yields for the response of a page
parse(spider, job_posts, page) ==
    LET out == IF spider = "departments"
               THEN [items |-> DepartmentItems(job_posts, page, 0), raised |-> FALSE]
               ELSE OutlineLoop(job_posts, page, 0)
    IN  [items |-> out.items, raised |-> out.raised,
         follow |-> FollowsNextPage(spider, job_posts, out)]

\* the pages of a spider are counted up to page MaxFetches; a board that
\* ends is done before
MaxFetches == MaxPages + 2

\* the page a board serves for ?page=p: a board that repeats serves its
\* last page for every p beyond it
ServedPage(board, repeats, p) ==
    IF repeats /\ board # <<>> /\ p > Len(board)
    THEN board[Len(board)]
    ELSE PageOf(board, p)

\* a spider that skips a page
NextPageNumber_Skip(n) == n + 2

\* self.page_number += 1
NextPageNumber(n) == n + 1

PageInit ==
    /\ pg_spider \in {"departments", "outline"}
    /\ pg_board \in Boards
    /\ page_number = 1
    /\ pg_pending = 0
    /\ pg_requests = <<>>
    /\ pg_items = <<>>
    /\ pg_raised = FALSE
    /\ pg_failed = {}
    /\ pg_delivered = {}
    /\ pg_repeats \in BOOLEAN
    /\ pg_uncounted = 0

PageIdle ==
    /\ pg_spider = "departments"
    /\ pg_board = <<>>
    /\ page_number = 1
    /\ pg_pending = 0
    /\ pg_requests = <<>>
    /\ pg_items = <<>>
    /\ pg_raised = FALSE
    /\ pg_failed = {}
    /\ pg_delivered = {}
    /\ pg_repeats = FALSE
    /\ pg_uncounted = 0

\* start_requests: the request for self.url, which is page 1
StartRequests ==
    /\ pg_requests = <<>>
    /\ pg_pending' = 1
    /\ pg_requests' = <<1>>
    /\ UNCHANGED <<pg_spider, pg_board, page_number, pg_items, pg_raised, pg_failed,
                   pg_delivered, pg_repeats, pg_uncounted>>
    /\ UNCHANGED <<chunkVars, store, clsVars, discVars, rdVars, hashVars, leverVars, stratVars, mainVars, probeVars, verifyVars, rowVars>>

\* the response of the request in flight arrives and parse runs on it
Parse ==
    /\ pg_pending # 0
    /\ pg_pending <= MaxFetches
    /\ LET r == parse(pg_spider, ServedPage(pg_board, pg_repeats, pg_pending), page_number)
       IN  /\ pg_items' = pg_items \o r.items
           /\ pg_raised' = (pg_raised \/ r.raised)
           /\ IF r.follow
              THEN /\ page_number' = NextPageNumber(page_number)
                   /\ pg_pending' = NextPageNumber(page_number)
                   /\ pg_requests' = Append(pg_requests, NextPageNumber(page_number))
              ELSE /\ pg_pending' = 0
                   /\ UNCHANGED <<page_number, pg_requests>>
    /\ UNCHANGED <<pg_spider, pg_board, pg_failed, pg_delivered, pg_repeats, pg_uncounted>>
    /\ UNCHANGED <<chunkVars, store, clsVars, discVars, rdVars, hashVars, leverVars, stratVars, mainVars, probeVars, verifyVars, rowVars>>

\* parse of a page past page MaxFetches.  The spider goes on as before; the
\* model no longer counts: of these pages it keeps the parity of their
\* number, and neither their records nor their requests
ParseUncounted ==
    /\ pg_pending > MaxFetches
    /\ LET r == parse(pg_spider, ServedPage(pg_board, pg_repeats, pg_pending), page_number)
       IN  IF r.follow
           THEN /\ pg_uncounted' = 1 - pg_uncounted
                /\ UNCHANGED <<pg_pending, pg_raised>>
           ELSE /\ pg_pending' = 0
                /\ pg_raised' = (pg_raised \/ r.raised)
                /\ UNCHANGED pg_uncounted
    /\ UNCHANGED <<pg_spider, pg_board, page_number, pg_requests, pg_items, pg_failed,
                   pg_delivered, pg_repeats>>
    /\ UNCHANGED <<chunkVars, store, clsVars, discVars, rdVars, hashVars, leverVars, stratVars, mainVars, probeVars, verifyVars, rowVars>>

\* whether the request for the page was built with errback=self.errback_httpbin:
\* only the Request of the outline spider's start_requests is; the
\* departments spider's start_requests and both response.follow calls pass
\* a callback only
HasErrback(spider, page) == spider = "outline" /\ page = 1

\* the board the spider of the paging specification is constructed for, and
\* its row in the store
PageBoardUrl == Url(JOB_BOARDS, "acme", "")

PageStoreInit ==
    /\ store = <<Row(1, PageBoardUrl, TRUE, "Acme", "created")>>
    /\ sp_careers_page_url = PageBoardUrl
    /\ retry_counts = <<>>
    /\ failure_log = <<>>

\* a spider that issues the failed request again
AfterFailure_Retry(pending) == pending

\* the request in flight after a failure: errback_httpbin and Scrapy's own
\* logging yield no request
AfterFailure(pending) == 0

\* the request in flight fails for good (its retries are used up): Scrapy
\* calls the request's errback if it has one, otherwise it logs the failure
\* itself; no further request is made
FetchFailed ==
    /\ pg_pending # 0
    /\ pg_failed' = pg_failed \cup {pg_pending}
    /\ pg_delivered' = IF HasErrback(pg_spider, pg_pending)
                       THEN pg_delivered \cup {pg_pending}
                       ELSE pg_delivered
    /\ IF HasErrback(pg_spider, pg_pending)
       THEN /\ Len(failure_log) < MaxFailures
            /\ \E failure \in Failures : errback_httpbin(failure)
       ELSE UNCHANGED <<store, clsVars>>
    /\ pg_pending' = AfterFailure(pg_pending)
    /\ UNCHANGED <<pg_spider, pg_board, page_number, pg_requests, pg_items, pg_raised,
                   pg_repeats, pg_uncounted>>
    /\ UNCHANGED <<chunkVars, discVars, rdVars, hashVars, leverVars, stratVars, mainVars, probeVars, verifyVars, rowVars>>

----------------------------------------------------------------------------
(* The sequence index of a job row of a new-format board: the argument of    *)
(* determine_row_id in parse_job_boards_prefix of the outline spider         *)

MaxSection == 1
MaxRow == 10
MaxPageNumber == 2

RowInit == ri_calls = <<>>

RowIdle == ri_calls = <<>>

\* parse_job_boards_prefix(i, j, department_ids, opening) while
\* self.page_number is page: row j of section i of that page
ParseJobBoardsPrefix ==
    /\ Len(ri_calls) < 2
    /\ \E i \in 0..MaxSection, j \in 0..MaxRow, page \in 1..MaxPageNumber :
          ri_calls' = Append(ri_calls,
                         [i |-> i, j |-> j, page |-> page,
                          row |-> OutlineRowIndex(i, j, page)])
    /\ UNCHANGED <<chunkVars, store, clsVars, discVars, rdVars, hashVars, pageVars, leverVars, stratVars, mainVars, probeVars, verifyVars>>

----------------------------------------------------------------------------
(* The Lever spider: parse of lever_jobs_outline_spider.py                  *)

MaxGroups == 3
MaxPostings == 2

\* text of the large-category-header / large-category-label of a group
HeaderTexts == {None, "Product", "Sales"}
LabelTexts == {None, "Engineering", "Design"}

\* a div.postings-group: its header text, its label text and its number of
\* a.posting-title anchors
PostingsGroups == [header : HeaderTexts, label : LabelTexts, anchors : 0..MaxPostings]

LeverPages == SeqsUpTo(PostingsGroups, MaxGroups)

\* the records of the anchors of group i
LeverOpenings(i, departments, anchors) ==
    [n \in 1..anchors |->
        [i |-> i, j |-> n - 1, department_names |-> departments,
         row |-> i * 1000 + (n - 1)]]

\* a label convention that keeps the label of the first group
LeverDepartments_FirstLabel(secondary_string, primary_department, label) ==
    IF secondary_string = "header"
    THEN IF primary_department = None \/ label = None
         THEN [raised |-> TRUE, departments |-> None]
         ELSE [raised |-> FALSE, departments |-> <<primary_department, label>>]
    ELSE [raised |-> FALSE, departments |-> primary_department]

\* lines 50-55: departments of a group; str + None raises TypeError.
\* <<p, l>> stands for p + " - " + l
LeverDepartments(secondary_string, primary_department, label) ==
    IF secondary_string = "header"
    THEN IF primary_department = None \/ label = None
         THEN [raised |-> TRUE, departments |-> None]
         ELSE [raised |-> FALSE, departments |-> <<primary_department, label>>]
    ELSE [raised |-> FALSE, departments |-> label]

\* a convention that is chosen again for every group
SecondaryString_PerGroup(i, header, secondary_string) ==
    IF header = None THEN "label" ELSE "header"

\* lines 43-49: secondary_string is assigned in the first pass only
SecondaryString(i, header, secondary_string) ==
    IF i = 0
    THEN (IF header = None THEN "label" ELSE "header")
    ELSE secondary_string

\* a header that is never replaced by the header of a later group
PrimaryDepartment_First(i, g, sec, primary_department) ==
    IF i = 0
    THEN (IF g.header = None THEN g.label ELSE g.header)
    ELSE primary_department

\* lines 43-52: primary_department after the first pass, and after a group
\* with a header under the header convention
PrimaryDepartment(i, g, sec, primary_department) ==
    LET first == IF i = 0
                 THEN (IF g.header = None THEN g.label ELSE g.header)
                 ELSE primary_department
    IN  IF sec = "header" /\ g.header # None THEN g.header ELSE first

\* the loop over enumerate(postings_groups); i is 0-based.  An exception
\* ends the generator: items holds what was yielded before it
RECURSIVE LeverLoop(_, _, _, _)
LeverLoop(postings_groups, i, secondary_string, primary_department) ==
    IF i >= Len(postings_groups)
    THEN [items |-> <<>>, raised |-> FALSE, secondary |-> <<>>]
    ELSE LET g == postings_groups[i + 1]
             sec == SecondaryString(i, g.header, secondary_string)
             prim == PrimaryDepartment(i, g, sec, primary_department)
             d == LeverDepartments(sec, prim, g.label)
         IN  IF d.raised THEN [items |-> <<>>, raised |-> TRUE, secondary |-> <<sec>>]
             ELSE LET rest == LeverLoop(postings_groups, i + 1, sec, prim)
                  IN  [items |-> LeverOpenings(i, d.departments, g.anchors) \o rest.items,
                       raised |-> rest.raised,
                       secondary |-> <<sec>> \o rest.secondary]

\* LeverJobsOutlineSpider.parse
lever_parse(postings_groups) == LeverLoop(postings_groups, 0, None, None)

LeverInit ==
    /\ lv_page \in LeverPages
    /\ lv_pc = "start"
    /\ lv_items = <<>>
    /\ lv_raised = FALSE
    /\ lv_secondary = <<>>

LeverIdle ==
    /\ lv_page = <<>>
    /\ lv_pc = "start"
    /\ lv_items = <<>>
    /\ lv_raised = FALSE
    /\ lv_secondary = <<>>

\* start_requests (inherited from the outline spider): the board request
LeverStartRequests ==
    /\ lv_pc = "start"
    /\ lv_pc' = "fetching"
    /\ UNCHANGED <<lv_page, lv_items, lv_raised, lv_secondary>>
    /\ UNCHANGED <<chunkVars, store, clsVars, discVars, rdVars, hashVars, pageVars, stratVars, mainVars, probeVars, verifyVars, rowVars>>

\* the response arrives and parse runs on it
LeverParse ==
    /\ lv_pc = "fetching"
    /\ LET r == lever_parse(lv_page)
       IN  /\ lv_items' = lv_items \o r.items
           /\ lv_raised' = r.raised
           /\ lv_secondary' = r.secondary
    /\ lv_pc' = "done"
    /\ UNCHANGED lv_page
    /\ UNCHANGED <<chunkVars, store, clsVars, discVars, rdVars, hashVars, pageVars, stratVars, mainVars, probeVars, verifyVars, rowVars>>

----------------------------------------------------------------------------
(* The harvest run: initialize_database, verify_urls, run_spider and the   *)
(* main flow of run_job_scraper.py                                          *)

MaxMainChunk == 2
MaxCpuCount == 2

\* the import of the Lever spider succeeds: its module is in the package
LEVER_AVAILABLE == TRUE

\* default_urls of initialize_database
default_urls ==
    << <<Url(GREENHOUSE, "netflix", ""), "Netflix">>,
       <<Url(GREENHOUSE, "spotify", ""), "Spotify">>,
       <<Url(GREENHOUSE, "airbnb", ""), "Airbnb">>,
       <<Url(GREENHOUSE, "doordash", ""), "DoorDash">>,
       <<Url(GREENHOUSE, "stripe", ""), "Stripe">> >>

\* urls of the rows a store may hold when the run starts
MainUrls == {Url(GREENHOUSE, "acme", ""), Url(LEVER, "acme", "")}

\* what can happen to one default url: verify_url_before_adding says valid
\* or not and the INSERT goes through, or the INSERT raises (logged, skipped)
InsertOutcomes == {"valid", "invalid", "error"}

\* the for loop over default_urls from position k on
RECURSIVE InsertDefaults(_, _, _)
InsertDefaults(st, outcomes, k) ==
    IF k > Len(default_urls) THEN st
    ELSE InsertDefaults(
            IF outcomes[k] = "error" THEN st
            ELSE Append(st, Row(Len(st) + 1, default_urls[k][1], outcomes[k] = "valid",
                                default_urls[k][2], "created")),
            outcomes, k + 1)

\* initialize_database: the defaults are inserted when COUNT(*) is 0
initialize_database(st, outcomes) ==
    IF Len(st) = 0 THEN InsertDefaults(st, outcomes, 1) ELSE st

\* select distinct url from company_urls where is_enabled=true: a list of
\* 1-tuples, taken in the order of the rows
RECURSIVE SelectEnabled(_, _, _)
SelectEnabled(st, k, seen) ==
    IF k > Len(st) THEN <<>>
    ELSE IF st[k].is_enabled /\ st[k].url \notin seen
         THEN << <<st[k].url>> >> \o SelectEnabled(st, k + 1, seen \cup {st[k].url})
         ELSE SelectEnabled(st, k + 1, seen)

\* outcomes of the verification of one url.  "valid": 200 <= status < 400;
\* "invalid": another status, the UPDATE goes through; "invalid_db_error":
\* another status, the UPDATE raises; "unreachable": HEAD and GET raise, the
\* UPDATE goes through; "unreachable_db_error": HEAD and GET raise, the
\* UPDATE raises and the error is logged
VerifyOutcomes ==
    {"valid", "invalid", "invalid_db_error", "unreachable", "unreachable_db_error"}

\* if 200 <= response.status_code < 400
StatusIsValid(outcome) == outcome = "valid"

\* "if not urls_to_scrape" and "if not valid_urls"
NothingToProcess(urls) == urls = <<>>

\* an exit that reports the empty run as a failure
ExitIfNothingToProcess_Failure(urls, status) ==
    IF NothingToProcess(urls) THEN 1 ELSE status

\* lines 401-404 and 411-414: sys.exit(0) when the list is empty; status
\* is the status so far
ExitIfNothingToProcess(urls, status) ==
    IF NothingToProcess(urls) THEN 0 ELSE status

\* kwargs.pop("spider_id", default)
PopSpiderId(kwargs, default) ==
    IF "spider_id" \in DOMAIN kwargs THEN kwargs.spider_id ELSE default

\* GreenhouseJobDepartmentsSpider.__init__: the fields that go into record ids
departments_init(kwargs) ==
    [spider_id |-> PopSpiderId(kwargs, 1),
     careers_page_url |-> kwargs.careers_page_url,
     url_id |-> kwargs.url_id]

\* an outline spider that keeps the spider_id its parent's constructor set
outline_init_ParentId(kwargs) == departments_init(kwargs)

\* GreenhouseJobsOutlineSpider.__init__: super().__init__(*args, **kwargs),
\* then self.spider_id = kwargs.pop("spider_id", 2)
outline_init(kwargs) ==
    [departments_init(kwargs) EXCEPT !.spider_id = PopSpiderId(kwargs, 2)]

\* LeverJobsOutlineSpider.__init__: super().__init__(*args, **kwargs), then
\* self.spider_id = kwargs.pop("spider_id", 3)
lever_init(kwargs) ==
    [outline_init(kwargs) EXCEPT !.spider_id = PopSpiderId(kwargs, 3)]

\* process.crawl(<spider class>, careers_page_url=..., run_hash=..., url_id=...):
\* the spider constructed
Crawl(spider, url, url_id) ==
    LET kwargs == [careers_page_url |-> url, url_id |-> url_id]
        self == CASE spider = "departments" -> departments_init(kwargs)
                  [] spider = "outline" -> outline_init(kwargs)
                  [] OTHER -> lever_init(kwargs)
    IN  [spider |-> spider, careers_page_url |-> self.careers_page_url,
         url_id |-> self.url_id, spider_id |-> self.spider_id]

\* a dispatch that knows the Greenhouse boards only
SpidersFor_GreenhouseOnly(url, url_id) ==
    IF url.host \in {GREENHOUSE, JOB_BOARDS}
    THEN << Crawl("departments", url, url_id), Crawl("outline", url, url_id) >>
    ELSE <<>>

\* "greenhouse.io" in parsed_url.netloc / "lever.co" in parsed_url.netloc
\* and LEVER_AVAILABLE: the spiders run_spider creates for the url
SpidersFor(url, url_id) ==
    IF url.host \in {GREENHOUSE, JOB_BOARDS}
    THEN << Crawl("departments", url, url_id), Crawl("outline", url, url_id) >>
    ELSE IF url.host = LEVER /\ LEVER_AVAILABLE
    THEN << Crawl("lever", url, url_id) >>
    ELSE <<>>

\* the process.crawl calls of run_spider(single_url_chunk, chunk_number):
\* url_id = chunk_number * len(single_url_chunk) + i
RunSpiders(single_url_chunk, chunk_number) ==
    Flatten([k \in DOMAIN single_url_chunk |->
                SpidersFor(single_url_chunk[k],
                           chunk_number * Len(single_url_chunk) + (k - 1))])

\* the urls of the spiders that carry errback_httpbin
ErrbackUrls(spiders) ==
    {spiders[k].careers_page_url :
        k \in {n \in DOMAIN spiders : spiders[n].spider \in {"outline", "lever"}}}

\* mark_url_as_disabled run by the spiders of the urls in S
RECURSIVE DisableAll(_, _)
DisableAll(st, S) ==
    IF S = {} THEN st
    ELSE LET u == CHOOSE x \in S : TRUE
         IN  DisableAll(UpdateDisabled(st, html_source(u)), S \ {u})

MainInit ==
    /\ store \in Stores(MainUrls, {"Acme"}, RowFlags)
    /\ mn_pc = "start"
    /\ mn_chunk_size \in 0..MaxMainChunk
    /\ urls_to_scrape = <<>>
    /\ mn_todo = 0
    /\ valid_urls = <<>>
    /\ invalid_urls = <<>>
    /\ mn_chunks = <<>>
    /\ mn_runs = <<>>
    /\ mn_raised = "none"
    /\ mn_logged = FALSE
    /\ mn_status = -1
    /\ mn_cpu_count \in 1..MaxCpuCount
    /\ mn_pool = 0
    /\ mn_running = {}
    /\ mn_failed = FALSE

MainIdle ==
    /\ mn_pc = "idle"
    /\ mn_chunk_size = 1
    /\ urls_to_scrape = <<>>
    /\ mn_todo = 0
    /\ valid_urls = <<>>
    /\ invalid_urls = <<>>
    /\ mn_chunks = <<>>
    /\ mn_runs = <<>>
    /\ mn_raised = "none"
    /\ mn_logged = FALSE
    /\ mn_status = -1
    /\ mn_cpu_count = 1
    /\ mn_pool = 0
    /\ mn_running = {}
    /\ mn_failed = FALSE

\* line 384: initialize_database().  It runs before the try statement: a
\* database error in it (other than in the inserts) ends the process with a
\* traceback
MainInitializeDatabase ==
    /\ mn_pc = "start"
    /\ \E db_error \in BOOLEAN, outcomes \in [DOMAIN default_urls -> InsertOutcomes] :
          IF db_error
          THEN /\ mn_raised' = "init"
               /\ mn_status' = 1
               /\ mn_pc' = "exited"
               /\ UNCHANGED store
          ELSE /\ store' = initialize_database(store, outcomes)
               /\ mn_pc' = "query"
               /\ UNCHANGED <<mn_raised, mn_status>>
    /\ UNCHANGED <<mn_chunk_size, urls_to_scrape, mn_todo, valid_urls, invalid_urls,
                   mn_chunks, mn_runs, mn_logged>>
    /\ UNCHANGED <<mn_cpu_count, mn_pool, mn_running, mn_failed>>
    /\ UNCHANGED <<chunkVars, clsVars, discVars, rdVars, hashVars, pageVars, leverVars, stratVars, probeVars, verifyVars, rowVars>>

\* lines 392-404: the enabled-url query; no row: warning, sys.exit(0)
MainQuery ==
    /\ mn_pc = "query"
    /\ \E db_error \in BOOLEAN :
          IF db_error
          THEN /\ mn_raised' = "query"
               /\ mn_pc' = "except"
               /\ UNCHANGED <<urls_to_scrape, mn_status>>
          ELSE /\ urls_to_scrape' = SelectEnabled(store, 1, {})
               /\ mn_raised' = mn_raised
               /\ IF NothingToProcess(urls_to_scrape')
                  THEN mn_pc' = "exited"
                  ELSE mn_pc' = "verify"
               /\ mn_status' = ExitIfNothingToProcess(urls_to_scrape', mn_status)
    /\ UNCHANGED <<store, mn_chunk_size, mn_todo, valid_urls, invalid_urls, mn_chunks,
                   mn_runs, mn_logged>>
    /\ UNCHANGED <<mn_cpu_count, mn_pool, mn_running, mn_failed>>
    /\ UNCHANGED <<chunkVars, clsVars, discVars, rdVars, hashVars, pageVars, leverVars, stratVars, probeVars, verifyVars, rowVars>>

\* one pass of the for loop of verify_urls
MainVerifyUrl ==
    /\ mn_pc = "verify"
    /\ mn_todo < Len(urls_to_scrape)
    /\ mn_todo' = mn_todo + 1
    /\ LET url_tuple == urls_to_scrape[mn_todo + 1]
           url == url_tuple[1]
       IN  \E outcome \in VerifyOutcomes :
             IF StatusIsValid(outcome)
             THEN /\ valid_urls' = Append(valid_urls, url_tuple)
                  /\ UNCHANGED <<invalid_urls, store, mn_raised, mn_pc>>
             ELSE /\ invalid_urls' = Append(invalid_urls, url)
                  /\ UNCHANGED valid_urls
                  /\ store' = IF outcome \in {"invalid", "unreachable"}
                              THEN UpdateDisabled(store, url)
                              ELSE store
                  /\ IF outcome = "invalid_db_error"
                     THEN mn_raised' = "verify" /\ mn_pc' = "except"
                     ELSE UNCHANGED <<mn_raised, mn_pc>>
    /\ UNCHANGED <<mn_chunk_size, urls_to_scrape, mn_chunks, mn_runs, mn_logged, mn_status>>
    /\ UNCHANGED <<mn_cpu_count, mn_pool, mn_running, mn_failed>>
    /\ UNCHANGED <<chunkVars, clsVars, discVars, rdVars, hashVars, pageVars, leverVars, stratVars, probeVars, verifyVars, rowVars>>

\* lines 409-420: verify_urls has returned; no valid url: warning,
\* sys.exit(0); otherwise the chunks are made
MainChunk ==
    /\ mn_pc = "verify"
    /\ mn_todo = Len(urls_to_scrape)
    /\ mn_status' = ExitIfNothingToProcess(valid_urls, mn_status)
    /\ IF NothingToProcess(valid_urls)
       THEN /\ mn_pc' = "exited"
            /\ UNCHANGED mn_chunks
       ELSE /\ mn_chunks' = get_url_chunks(valid_urls, mn_chunk_size)
            /\ mn_pc' = "dispatch"
    /\ UNCHANGED <<store, mn_chunk_size, urls_to_scrape, mn_todo, valid_urls, invalid_urls,
                   mn_runs, mn_raised, mn_logged>>
    /\ UNCHANGED <<mn_cpu_count, mn_pool, mn_running, mn_failed>>
    /\ UNCHANGED <<chunkVars, clsVars, discVars, rdVars, hashVars, pageVars, leverVars, stratVars, probeVars, verifyVars, rowVars>>

\* a pool with one worker process per chunk
PoolSize_OnePerChunk(k, cpu_count) == k

\* line 432: processes=min(len(chunks), multiprocessing.cpu_count())
PoolSize(k, cpu_count) == IF k <= cpu_count THEN k ELSE cpu_count

\* line 424: if len(chunks) == 1, the chunk is run without multiprocessing
RunsInMain(chunks) == Len(chunks) = 1

\* line 432: the pool is created when there are several chunks
MainCreatePool ==
    /\ mn_pc = "dispatch"
    /\ Len(mn_chunks) > 0
    /\ ~RunsInMain(mn_chunks)
    /\ mn_pool = 0
    /\ mn_pool' = PoolSize(Len(mn_chunks), mn_cpu_count)
    /\ UNCHANGED <<store, mn_pc, mn_chunk_size, urls_to_scrape, mn_todo, valid_urls,
                   invalid_urls, mn_chunks, mn_runs, mn_raised, mn_logged, mn_status,
                   mn_cpu_count, mn_running, mn_failed>>
    /\ UNCHANGED <<chunkVars, clsVars, discVars, rdVars, hashVars, pageVars, leverVars, stratVars, probeVars, verifyVars, rowVars>>

\* lines 426 and 429-433: run_spider(chunk, chunk_number) is called for the
\* next chunk, in the main process or by a worker of the pool that is free;
\* starmap hands the chunks out in the order of args
MainRunSpider ==
    /\ mn_pc = "dispatch"
    /\ Len(mn_runs) < Len(mn_chunks)
    /\ IF RunsInMain(mn_chunks)
       THEN mn_running = {}
       ELSE mn_pool > 0 /\ Cardinality(mn_running) < mn_pool
    /\ LET chunk_number == Len(mn_runs)
           single_url_chunk == mn_chunks[chunk_number + 1]
       IN  /\ mn_runs' = Append(mn_runs,
                  [chunk_number |-> chunk_number,
                   single_url_chunk |-> single_url_chunk,
                   process |-> IF RunsInMain(mn_chunks) THEN "main" ELSE "worker",
                   spiders |-> RunSpiders(single_url_chunk, chunk_number)])
           /\ mn_running' = mn_running \cup {chunk_number}
    /\ UNCHANGED <<store, mn_pc, mn_chunk_size, urls_to_scrape, mn_todo, valid_urls,
                   invalid_urls, mn_chunks, mn_raised, mn_logged, mn_status,
                   mn_cpu_count, mn_pool, mn_failed>>
    /\ UNCHANGED <<chunkVars, clsVars, discVars, rdVars, hashVars, pageVars, leverVars, stratVars, probeVars, verifyVars, rowVars>>

\* lines 172-204: a run_spider call returns or raises; the spiders of its
\* crawl that carry the errback may have disabled their url.  An exception
\* in the main process goes to the handler at once; an exception in a
\* worker is kept by the pool
MainRunDone ==
    /\ mn_pc = "dispatch"
    /\ \E chunk_number \in mn_running :
          /\ mn_running' = mn_running \ {chunk_number}
          /\ \E disabled \in SUBSET ErrbackUrls(mn_runs[chunk_number + 1].spiders),
                raised \in BOOLEAN :
                /\ store' = DisableAll(store, disabled)
                /\ IF raised /\ RunsInMain(mn_chunks)
                   THEN mn_raised' = "dispatch" /\ mn_pc' = "except"
                   ELSE UNCHANGED <<mn_raised, mn_pc>>
                /\ mn_failed' = (mn_failed \/ (raised /\ ~RunsInMain(mn_chunks)))
    /\ UNCHANGED <<mn_chunk_size, urls_to_scrape, mn_todo, valid_urls, invalid_urls,
                   mn_chunks, mn_runs, mn_logged, mn_status, mn_cpu_count, mn_pool>>
    /\ UNCHANGED <<chunkVars, clsVars, discVars, rdVars, hashVars, pageVars, leverVars, stratVars, probeVars, verifyVars, rowVars>>

\* line 433: starmap raises the exception of a worker in the main process.
\* The pool hands the chunks to its workers in batches, and an exception
\* ends the batch it occurs in: chunks may be left unrun
MainPoolRaise ==
    /\ mn_pc = "dispatch"
    /\ mn_failed
    /\ mn_running = {}
    /\ mn_raised' = "dispatch"
    /\ mn_pc' = "except"
    /\ UNCHANGED <<store, mn_chunk_size, urls_to_scrape, mn_todo, valid_urls, invalid_urls,
                   mn_chunks, mn_runs, mn_logged, mn_status, mn_cpu_count, mn_pool,
                   mn_running, mn_failed>>
    /\ UNCHANGED <<chunkVars, clsVars, discVars, rdVars, hashVars, pageVars, leverVars, stratVars, probeVars, verifyVars, rowVars>>

\* lines 434-435 and the end of the file: every chunk was run and none
\* raised; the script ends
MainEnd ==
    /\ mn_pc = "dispatch"
    /\ Len(mn_runs) = Len(mn_chunks)
    /\ mn_running = {}
    /\ ~mn_failed
    /\ mn_status' = 0
    /\ mn_pc' = "exited"
    /\ UNCHANGED <<store, mn_chunk_size, urls_to_scrape, mn_todo, valid_urls, invalid_urls,
                   mn_chunks, mn_runs, mn_raised, mn_logged, mn_cpu_count, mn_pool,
                   mn_running, mn_failed>>
    /\ UNCHANGED <<chunkVars, clsVars, discVars, rdVars, hashVars, pageVars, leverVars, stratVars, probeVars, verifyVars, rowVars>>

\* exit status after the handler of lines 437-441: the handler ends
\* without raise or sys.exit, the script is at its end
ExceptStatus == 0

\* lines 437-441: except Exception: log the error, close the connection
MainExcept ==
    /\ mn_pc = "except"
    /\ mn_logged' = TRUE
    /\ mn_status' = ExceptStatus
    /\ mn_pc' = "exited"
    /\ UNCHANGED <<store, mn_chunk_size, urls_to_scrape, mn_todo, valid_urls, invalid_urls,
                   mn_chunks, mn_runs, mn_raised>>
    /\ UNCHANGED <<mn_cpu_count, mn_pool, mn_running, mn_failed>>
    /\ UNCHANGED <<chunkVars, clsVars, discVars, rdVars, hashVars, pageVars, leverVars, stratVars, probeVars, verifyVars, rowVars>>

----------------------------------------------------------------------------
(* Specifications *)

InitChunk == ChunkInit /\ StoreIdle /\ ClsIdle /\ DiscIdle /\ RdInit /\ VerifyIdle /\ RowIdle /\ HashIdle /\ PageIdle /\ LeverIdle /\ StratIdle /\ MainIdle /\ ProbeIdle
NextChunk == GetUrlChunks
SpecChunk == InitChunk /\ [][NextChunk]_vars

InitClassifier == ClsInit /\ ChunkIdle /\ DiscIdle /\ RdInit /\ VerifyIdle /\ RowIdle /\ HashIdle /\ PageIdle /\ LeverIdle /\ StratIdle /\ MainIdle /\ ProbeIdle
NextClassifier == Errback
SpecClassifier == InitClassifier /\ [][NextClassifier]_vars

InitStore == DiscInit /\ RdInit /\ VerifyIdle /\ RowIdle /\ ChunkIdle /\ ClsIdle /\ HashIdle /\ PageIdle /\ LeverIdle /\ StratIdle /\ MainIdle /\ ProbeIdle
NextStore ==
    \/ AddCompany
    \/ HarvestDisable
SpecStore == InitStore /\ [][NextStore]_vars

InitRecursive == RdStoreInit /\ RdInit /\ VerifyIdle /\ RowIdle /\ ChunkIdle /\ ClsIdle /\ HashIdle /\ PageIdle /\ LeverIdle /\ StratIdle /\ MainIdle /\ ProbeIdle
NextRecursive ==
    \/ RD_Call
    \/ RD_Pop
    \/ RD_Link
    \/ RD_PageDone
    \/ RD_Return
    \/ ConcurrentAddCompany
SpecRecursive == InitRecursive /\ [][NextRecursive]_vars

\* recursive_discovery alone: no other process writes to the store, and
\* the process that runs it keeps taking steps
NextRecursiveLive ==
    \/ RD_Call
    \/ RD_Pop
    \/ RD_Link
    \/ RD_PageDone
    \/ RD_Return
SpecRecursiveLive ==
    InitRecursive /\ [][NextRecursiveLive]_vars
        /\ WF_vars(RD_Pop \/ RD_Link \/ RD_PageDone \/ RD_Return)

InitHash == HashInit /\ ChunkIdle /\ StoreIdle /\ ClsIdle /\ DiscIdle /\ RdInit /\ VerifyIdle /\ RowIdle /\ PageIdle /\ LeverIdle /\ StratIdle /\ MainIdle /\ ProbeIdle
NextHash == DetermineRowId
SpecHash == InitHash /\ [][NextHash]_vars

InitPaging == PageInit /\ PageStoreInit /\ ChunkIdle /\ DiscIdle /\ RdInit /\ VerifyIdle /\ RowIdle /\ HashIdle /\ LeverIdle /\ StratIdle /\ MainIdle /\ ProbeIdle
NextPaging ==
    \/ StartRequests
    \/ Parse
    \/ ParseUncounted
    \/ FetchFailed
SpecPaging == InitPaging /\ [][NextPaging]_vars

\* the spider is started, and every request is answered or fails
SpecPagingLive ==
    InitPaging /\ [][NextPaging]_vars
        /\ WF_vars(StartRequests) /\ WF_vars(Parse \/ ParseUncounted \/ FetchFailed)


InitLever == LeverInit /\ ChunkIdle /\ StoreIdle /\ ClsIdle /\ DiscIdle /\ RdInit /\ VerifyIdle /\ RowIdle /\ HashIdle /\ PageIdle /\ StratIdle /\ MainIdle /\ ProbeIdle
NextLever ==
    \/ LeverStartRequests
    \/ LeverParse
SpecLever == InitLever /\ [][NextLever]_vars

InitScan ==
    /\ store \in Stores({Url(GREENHOUSE, "acme", "")}, {"Acme"},
                         {<<TRUE, "created">>, <<FALSE, "updated">>})
    /\ \E ledger \in RdLedgers :
          checked_urls = [p \in Procs |-> IF p = "p1" THEN ledger ELSE {}]
    /\ checked_companies = [p \in Procs |-> {}]
    /\ last_add = NoCall
    /\ true_returns = [p \in Procs |-> [u \in AddUrls \cup SearchUrls |-> 0]]
    /\ store0 = StoreUrls(store)
    /\ conn_failed = [p \in Procs |-> FALSE]
    /\ MainIdle /\ ProbeIdle
    /\ StratInit /\ RdInit /\ VerifyIdle /\ RowIdle /\ ChunkIdle /\ ClsIdle /\ HashIdle /\ PageIdle /\ LeverIdle
NextScan ==
    \/ ScanCall
    \/ ScanFetch
    \/ ScanLink
    \/ ScanLetterDone
    \/ ScanReturn
    \/ SearchCall
    \/ SearchResult
    \/ SearchReturn
SpecScan == InitScan /\ [][NextScan]_vars

InitMain == MainInit /\ ChunkIdle /\ ClsIdle /\ DiscIdle /\ RdInit /\ VerifyIdle /\ RowIdle /\ HashIdle /\ PageIdle /\ LeverIdle /\ StratIdle /\ ProbeIdle
NextMain ==
    \/ MainInitializeDatabase
    \/ MainQuery
    \/ MainVerifyUrl
    \/ MainChunk
    \/ MainCreatePool
    \/ MainRunSpider
    \/ MainRunDone
    \/ MainPoolRaise
    \/ MainEnd
    \/ MainExcept
SpecMain == InitMain /\ [][NextMain]_vars


InitProbe == ProbeStoreInit /\ ProbeInit /\ StratInit /\ RdInit /\ VerifyIdle /\ RowIdle /\ ChunkIdle /\ ClsIdle /\ HashIdle /\ PageIdle /\ LeverIdle /\ MainIdle
NextProbe ==
    \/ ProbeCall
    \/ ProbeCompany
    \/ ProbeVariation
    \/ ProbeCompanyDone
    \/ ProbeReturn
SpecProbe == InitProbe /\ [][NextProbe]_vars

InitVerify == VerifyInit /\ RowIdle /\ StoreIdle /\ ChunkIdle /\ ClsIdle /\ DiscIdle /\ RdInit /\ HashIdle /\ PageIdle /\ LeverIdle /\ StratIdle /\ MainIdle /\ ProbeIdle
NextVerify ==
    \/ VerifyCall
    \/ VerifyHead
    \/ VerifyGet
    \/ VerifyDecide
SpecVerify == InitVerify /\ [][NextVerify]_vars

InitRowIndex == RowInit /\ VerifyIdle /\ StoreIdle /\ ChunkIdle /\ ClsIdle /\ DiscIdle /\ RdInit /\ HashIdle /\ PageIdle /\ LeverIdle /\ StratIdle /\ MainIdle /\ ProbeIdle
NextRowIndex == ParseJobBoardsPrefix
SpecRowIndex == InitRowIndex /\ [][NextRowIndex]_vars

----------------------------------------------------------------------------
(* Properties *)

BoardEnabled == IsEnabled(store, sp_careers_page_url)

\* C4: after a single HTTP 404 delivered to the classifier the spider's board
\* url has is_enabled = false in the store, whatever the retry counter holds.
C4_NotFoundDisablesUrl ==
    Delivered(IsNotFound) >= 1 => ~BoardEnabled

\* the same statement for board urls stored without a trailing slash
C4_NotFoundDisablesUnslashedUrl ==
    (Delivered(IsNotFound) >= 1 /\ sp_careers_page_url.rest = "") => ~BoardEnabled

\* C5: the retry counter of the spider's url equals the number of transient
\* failures delivered; with no 404 delivered, the url is enabled after fewer
\* than three transient failures and disabled from the third on.
C5_TransientThreshold ==
    /\ IF SpiderUrl \in DOMAIN retry_counts
       THEN retry_counts[SpiderUrl] = Delivered(IsTransient)
       ELSE Delivered(IsTransient) = 0
    /\ Delivered(IsNotFound) = 0 =>
          (BoardEnabled <=> Delivered(IsTransient) < max_retries)

\* the same statement for board urls stored without a trailing slash
C5_TransientThresholdUnslashedUrl ==
    sp_careers_page_url.rest = "" => C5_TransientThreshold

\* C6: a step that delivers an HTTP error with a status other than 404
\* leaves every store row and the retry counters as they were.
C6_OtherHttpErrorChangesNothing ==
    [][(failure_log' # failure_log /\ IsOtherHttp(failure_log'[Len(failure_log')]))
          => (store' = store /\ retry_counts' = retry_counts)]_vars

\* a 500 was delivered after two transient failures; the url is still enabled
C6_Witness ==
    /\ Len(failure_log) = 3
    /\ IsTransient(failure_log[1])
    /\ IsTransient(failure_log[2])
    /\ IsOtherHttp(failure_log[3])
    /\ BoardEnabled
    /\ retry_counts[SpiderUrl] = 2

\* number of add_company calls, over all processes, that returned True for u
TrueReturns(u) == true_returns["p1"][u] + true_returns["p2"][u]

\* C2: for every url at most one add_company call of the discovery runs
\* returns True, and none does for a url that was in the store when the runs
\* started.
C2_AtMostOneInsertedPerUrl ==
    \A u \in AddUrls :
        /\ TrueReturns(u) <= 1
        /\ u \in store0 => TrueReturns(u) = 0

\* a url inserted in this run was upserted again, and the call returned False
C2_Witness ==
    /\ last_add.proc = "p1"
    /\ ~last_add.returned
    /\ ~last_add.raised
    /\ last_add.url \notin store0
    /\ true_returns["p1"][last_add.url] = 1

\* C3: in every reachable state the store holds at most one row per url,
\* whatever the two discovery processes upsert, whatever their ledgers hold
\* and whatever the harvest workers disable.
C3_UrlUnique ==
    \A u \in StoreUrls(store) : Cardinality(RowsOf(store, u)) <= 1

\* p1 inserted a url, a harvest worker disabled it, and p2, whose ledger
\* does not hold it, upserted it again
C3_Witness ==
    /\ last_add.proc = "p2"
    /\ last_add.present
    /\ true_returns["p1"][last_add.url] = 1
    /\ last_add.url \notin checked_urls["p2"]
    /\ ~IsEnabled(store, last_add.url)

\* C7: every fetch of recursive_discovery is of a url that was not fetched
\* before in the call and was not in the ledger when it was popped.
C7_NoUrlFetchedTwice ==
    [][rd_fetched' # rd_fetched =>
          LET u == rd_fetched'[Len(rd_fetched')]
          IN  /\ rd_fetched' = Append(rd_fetched, u)
              /\ u \notin Range(rd_fetched)
              /\ u \notin checked_urls["p1"]]_vars

\* a url that was fetched came out of the queue a second time and was dropped
C7_Witness ==
    /\ \E u \in rd_dropped : u \in Range(rd_fetched)
    /\ rd_pc = "done"

\* C8: a call with max_depth = 0 fetches nothing, calls add_company for
\* nothing, leaves the ledger as it was and counts 0 companies, whatever the
\* seeds are.
C8_MaxDepthZeroDoesNothing ==
    (rd_pc # "idle" /\ rd_max_depth = 0) =>
        /\ rd_fetched = <<>>
        /\ rd_adds = 0
        /\ \A u \in AddUrls : true_returns["p1"][u] = 0
        /\ checked_urls["p1"] = rd_start
        /\ companies_found = 0
        /\ rd_pc # "links"

\* a call with max_depth = 0 and two seeds has returned
C8_Witness ==
    /\ rd_pc = "done"
    /\ rd_max_depth = 0
    /\ rd_popped = 2

\* the inputs of a recorded determine_row_id call
IdInputs(call) == <<call.spider_id, call.i, call.url_id, call.created_at>>

RECURSIVE PageRecords(_, _, _)
PageRecords(spider, job_posts, k) ==
    IF k > Len(job_posts) THEN 0
    ELSE (IF spider = "departments"
          THEN (IF job_posts[k].heading THEN 1 ELSE 0)
          ELSE job_posts[k].openings)
         + PageRecords(spider, job_posts, k + 1)

\* whether the page holds an entry: a department heading for the
\* departments spider, a job-posts container for the outline spider
PageHasEntry(spider, job_posts) ==
    IF spider = "departments" THEN \E k \in DOMAIN job_posts : job_posts[k].heading
    ELSE job_posts # <<>>

\* the pages up to the first page without an entry
RECURSIVE PagesBeforeEmpty(_, _, _)
PagesBeforeEmpty(spider, board, p) ==
    IF PageHasEntry(spider, PageOf(board, p))
    THEN {p} \cup PagesBeforeEmpty(spider, board, p + 1)
    ELSE {}

\* C10: when the crawl of a job-boards board that ends is over and none of
\* its fetches failed, page N+1 was requested exactly when page N was
\* requested and held an entry, and the
\* records emitted are those of the pages before the first empty page.
C10_PaginationStopsAtFirstEmptyPage ==
    (pg_requests # <<>> /\ pg_pending = 0 /\ pg_failed = {} /\ ~pg_repeats) =>
        LET full == PagesBeforeEmpty(pg_spider, pg_board, 1)
        IN  /\ Range(pg_requests) = {1} \cup {p + 1 : p \in full}
            /\ Len(pg_requests) = Cardinality(full) + 1
            /\ \A p \in full :
                  Cardinality({k \in DOMAIN pg_items : pg_items[k].page = p})
                      = PageRecords(pg_spider, PageOf(pg_board, p), 1)
            /\ \A k \in DOMAIN pg_items : pg_items[k].page \in full

\* every job-posts container of the board has a heading
AllHeadings ==
    \A p \in DOMAIN pg_board : \A k \in DOMAIN pg_board[p] : pg_board[p][k].heading

\* the pagination rule holds on boards whose containers all have a heading
C10_PaginationWithHeadings ==
    AllHeadings => C10_PaginationStopsAtFirstEmptyPage

\* page 1 with records, page 2 empty: two fetches, the crawl is over
C10_TwoFetches ==
    /\ pg_requests = <<1, 2>>
    /\ pg_pending = 0
    /\ pg_items # <<>>
    /\ AllHeadings

\* every postings-group of the page has a label and no header
LabelOnlyPage ==
    \A g \in DOMAIN lv_page : lv_page[g].header = None /\ lv_page[g].label # None

\* number of posting anchors of the page
RECURSIVE TotalAnchors(_, _)
TotalAnchors(postings_groups, g) ==
    IF g > Len(postings_groups) THEN 0
    ELSE postings_groups[g].anchors + TotalAnchors(postings_groups, g + 1)

\* C11: on a page whose postings-groups have a label and no header, the
\* Lever spider emits one record per posting anchor, in document order, and
\* the department_names of each record is the label of the anchor's group.
C11_LabelPageOneRecordPerAnchor ==
    (lv_pc = "done" /\ LabelOnlyPage) =>
        /\ ~lv_raised
        /\ Len(lv_items) = TotalAnchors(lv_page, 1)
        /\ \A g \in DOMAIN lv_page : \A j \in 0..(lv_page[g].anchors - 1) :
              \E k \in DOMAIN lv_items : lv_items[k].i = g - 1 /\ lv_items[k].j = j
        /\ \A k \in DOMAIN lv_items :
              lv_items[k].department_names = lv_page[lv_items[k].i + 1].label
        /\ \A k, l \in DOMAIN lv_items :
              k < l => \/ lv_items[k].i < lv_items[l].i
                       \/ lv_items[k].i = lv_items[l].i /\ lv_items[k].j < lv_items[l].j

\* two groups with different labels and anchors in both were parsed
C11_Witness ==
    /\ lv_pc = "done"
    /\ LabelOnlyPage
    /\ Len(lv_page) = 2
    /\ lv_page[1].label # lv_page[2].label
    /\ lv_page[1].anchors = 2
    /\ lv_page[2].anchors > 0
    /\ Len(lv_items) > 2

\* the anchors of the listing pages received, in the order received
ListedAnchors == Flatten(sc_listed)

C13_UpsertKeepsExistingRow ==
    [][(last_add' # last_add /\ last_add'.present) => store' = store]_vars

\* add_company was called with another company name on a disabled row
C13_Witness ==
    /\ last_add.present
    /\ \E k \in DOMAIN store :
          /\ store[k].url = last_add.url
          /\ store[k].company_name # last_add.company_name
          /\ ~store[k].is_enabled
          /\ store[k].updated_at = "updated"

\* C15: the count a discovery strategy returns is the number of rows it
\* inserted into company_urls during the call.
C15_CountIsNumberInserted ==
    st_pc = "done" => st_returned = Len(store) - Len(st_rows0)

C20_SearchFailed ==
    /\ st_pc = "done"
    /\ st_strategy = "search"
    /\ se_status \notin {0, 200}

\* the page uses the header convention: its first group has a category header
HeaderConvention(page) == page # <<>> /\ page[1].header # None

\* the groups of the page that cannot be parsed: under the header convention,
\* those without a category label
Unparseable(page) ==
    {i \in 1..Len(page) : HeaderConvention(page) /\ page[i].label = None}

\* the records emitted for group i (1-based) of the page
RecordsOfGroup(i) == {n \in 1..Len(lv_items) : lv_items[n].i = i - 1}

\* C17: when parse is done with a Lever page, every postings-group other
\* than the unparseable ones has its records emitted, one per posting
\* anchor: the unparseable group is skipped and the page is not aborted.
C17_UnparseableGroupIsSkipped ==
    lv_pc = "done" =>
        \A i \in 1..Len(lv_page) :
            i \notin Unparseable(lv_page) =>
                Cardinality(RecordsOfGroup(i)) = lv_page[i].anchors

\* C16: every fetch of a Greenhouse spider that failed, the initial request
\* or a ?page=N request, was delivered to errback_httpbin.
C16_EveryFailedFetchReachesErrback == pg_failed \subseteq pg_delivered

\* C14: no step removes a row of company_urls: every row of the store is
\* still there after the step, under the same id and url, so the set of
\* urls only grows; a row that is disabled stays.
C14_RowsAreNeverRemoved ==
    [][/\ Len(store') >= Len(store)
       /\ \A k \in DOMAIN store :
             store'[k].id = store[k].id /\ store'[k].url = store[k].url]_vars

\* the run found a url invalid and disabled it; its row is in the store
C14_Witness ==
    /\ mn_pc = "exited"
    /\ invalid_urls # <<>>
    /\ \E k \in DOMAIN store :
          /\ store[k].url = invalid_urls[1]
          /\ ~store[k].is_enabled
          /\ store[k].updated_at = "updated"

\* C18: when an exception was raised in the main flow (the query, the
\* verification or the dispatch of the workers), it was logged and the
\* process ended with a status other than 0.
C18_ExceptionEndsWithNonZeroStatus ==
    (mn_pc = "exited" /\ mn_raised \in {"query", "verify", "dispatch"}) =>
        (mn_logged /\ mn_status # 0)

\* C19: a run without exception whose query returned no row, or whose
\* verification left no valid url, ended with status 0 and without a chunk,
\* a run_spider call or a spider.
C19_NothingToProcessExitsZero ==
    (mn_pc = "exited" /\ mn_raised = "none"
        /\ (urls_to_scrape = <<>> \/ valid_urls = <<>>)) =>
        /\ mn_status = 0
        /\ mn_chunks = <<>>
        /\ mn_runs = <<>>

\* the query returned urls and verification found every one of them invalid
C19_Witness ==
    /\ mn_pc = "exited"
    /\ mn_raised = "none"
    /\ urls_to_scrape # <<>>
    /\ valid_urls = <<>>
    /\ Len(invalid_urls) = Len(urls_to_scrape)

\* the query returned no row
C19_NoRows ==
    /\ mn_pc = "exited"
    /\ mn_raised = "none"
    /\ urls_to_scrape = <<>>
    /\ mn_todo = 0

\* C21: in probe-by-name the variations of a company are requested in the
\* order no-space, hyphenated, with-spaces; nothing is requested for a
\* company after one of its variations was answered with 200; nothing is
\* requested for a company whose lower-cased name is in the ledger; and no
\* Lever url is requested twice.
C21_ProbeOrderAndShortCircuit ==
    /\ \A m, n \in DOMAIN pb_fetched :
          (m < n /\ pb_fetched[m].i = pb_fetched[n].i) =>
              /\ pb_fetched[m].k < pb_fetched[n].k
              /\ pb_fetched[m].status # 200
    /\ \A m, n \in DOMAIN pb_fetched :
          m < n => /\ pb_fetched[m].i <= pb_fetched[n].i
                   /\ pb_fetched[m].url # pb_fetched[n].url
    /\ \A n \in DOMAIN pb_fetched :
          /\ ~pb_fetched[n].name_checked
          /\ pb_fetched[n].url =
                 lever_url(company_variations(pb_companies[pb_fetched[n].i])[pb_fetched[n].k].slug)

\* the no-space variation of a two-word name was not found, the hyphenated
\* one was answered with 200, and the scan has returned
C21_Witness ==
    /\ pb_pc = "done"
    /\ \E m, n \in DOMAIN pb_fetched :
          /\ pb_fetched[m].i = pb_fetched[n].i
          /\ pb_fetched[m].k = 1 /\ pb_fetched[m].status = 404
          /\ pb_fetched[n].k = 2 /\ pb_fetched[n].status = 200

C22_SingleChunk ==
    /\ mn_pc = "exited"
    /\ mn_raised = "none"
    /\ Len(mn_chunks) = 1
    /\ Len(mn_runs) = 1

\* C23: the pages requested by a new-format Greenhouse spider are 1, 2, 3,
\* ... in this order; the request in flight, if any, is the last one made,
\* and no record of its page has been emitted yet; the records emitted are
\* in the order of their pages.
C23_PagesInOrder ==
    /\ \A k \in DOMAIN pg_requests : pg_requests[k] = k
    /\ pg_pending # 0 =>
          /\ pg_pending = Len(pg_requests)
          /\ \A n \in DOMAIN pg_items : pg_items[n].page < pg_pending
    /\ \A m, n \in DOMAIN pg_items : m < n => pg_items[m].page <= pg_items[n].page
    /\ \A n \in DOMAIN pg_items : pg_items[n].page \in Range(pg_requests)

\* records of page 1 and of page 2 were emitted and page 3 was requested
C23_Witness ==
    /\ pg_requests = <<1, 2, 3>>
    /\ \E m, n \in DOMAIN pg_items : pg_items[m].page = 1 /\ pg_items[n].page = 2

\* two urls of one provider whose slugs differ at most in letter case
SameBoard(u, v) == u.host = v.host /\ Lower(u.slug) = Lower(v.slug)

\* C24: links to one company that differ only in query string, trailing
\* path or letter case of the slug give one canonical url: the store never
\* holds two rows for one board.
C24_OneRowPerBoard ==
    \A j, k \in DOMAIN store :
        (j # k /\ SameBoard(store[j].url, store[k].url)) => store[j].url = store[k].url

\* C25: when recursive_discovery has returned, every board url that its
\* link loop inserted and appended to the queue at depth + 1 < max_depth
\* has been fetched.
C25_RequeuedUrlIsFetched ==
    rd_pc = "done" => rd_requeued \subseteq Range(rd_fetched)

\* C26: a call of recursive_discovery returns: once the loop is entered,
\* the queue becomes empty and the function is left, whatever the seeds,
\* the depth, the links of the pages and the outcomes of the fetches.
C26_RecursiveDiscoveryTerminates ==
    (rd_pc = "loop") ~> (rd_pc = "done" /\ url_queue = <<>>)

\* a page linked to a url that had been fetched before (a cycle): the link
\* was inserted and appended to the queue, and the call has returned
C26_Witness ==
    /\ rd_pc = "done"
    /\ rd_requeued \cap Range(rd_fetched) # {}
    /\ rd_dropped # {}

\* C27: a new-format Greenhouse spider eventually is done: it has made its
\* requests and none is in flight.
C27_SpiderEventuallyDone ==
    <>(pg_requests # <<>> /\ pg_pending = 0)

\* on a board that ends the spider eventually is done
C27_DoneOnBoardsThatEnd ==
    ~pg_repeats => C27_SpiderEventuallyDone

\* C28: when parse is done with a Lever page, secondary_string had in every
\* pass of the loop the value chosen from the first postings-group: "header"
\* if that group has a category header, "label" otherwise; under the label
\* convention every record carries the label of its own group, whatever
\* headers the later groups have.
C28_ConventionIsChosenOnce ==
    lv_pc = "done" =>
        /\ \A k \in DOMAIN lv_secondary :
              lv_secondary[k] = IF HeaderConvention(lv_page) THEN "header" ELSE "label"
        /\ ~HeaderConvention(lv_page) =>
              \A n \in DOMAIN lv_items :
                  lv_items[n].department_names = lv_page[lv_items[n].i + 1].label

\* the first group has no header, a later group has one and its records
\* were emitted
C28_Witness ==
    /\ lv_pc = "done"
    /\ Len(lv_page) >= 2
    /\ lv_page[1].header = None
    /\ lv_page[2].header # None
    /\ lv_page[2].label # None
    /\ Len(lv_secondary) >= 2
    /\ RecordsOfGroup(2) # {}

\* the header seen last at group i (1-based) of a page under the header
\* convention
MostRecentHeader(page, i) ==
    LET k == CHOOSE k \in 1..i :
                 /\ page[k].header # None
                 /\ \A l \in (k + 1)..i : page[l].header = None
    IN  page[k].header

\* C29: under the header convention, the department name of every record of
\* a group is the header seen last (the group's own or the one of the
\* nearest earlier group that has one), the separator and the group's label.
C29_HeaderThenLabel ==
    (lv_pc = "done" /\ HeaderConvention(lv_page)) =>
        \A i \in 1..Len(lv_page) : \A n \in RecordsOfGroup(i) :
            lv_items[n].department_names =
                <<MostRecentHeader(lv_page, i), lv_page[i].label>>

\* the second group changed the header and the third, which has none, has
\* its records emitted
C29_Witness ==
    /\ lv_pc = "done"
    /\ Len(lv_page) = 3
    /\ HeaderConvention(lv_page)
    /\ lv_page[2].header \notin {None, lv_page[1].header}
    /\ lv_page[3].header = None
    /\ RecordsOfGroup(3) # {}

\* verify_urls has returned
VerifyReturned == mn_pc = "verify" /\ mn_todo = Len(urls_to_scrape)

\* every input url is in exactly one of the two lists, and valid_urls keeps
\* the order of the input
C30_Partition ==
    VerifyReturned =>
        /\ \A k \in DOMAIN urls_to_scrape :
              LET t == urls_to_scrape[k]
              IN  (t \in Range(valid_urls)) # (t[1] \in Range(invalid_urls))
        /\ Len(valid_urls) + Len(invalid_urls) = Len(urls_to_scrape)
        /\ valid_urls = SelectSeq(urls_to_scrape, LAMBDA t : t \in Range(valid_urls))

\* the rows of the urls reported valid are still enabled
C30_ValidRowsKept ==
    VerifyReturned =>
        \A k \in DOMAIN store :
            <<store[k].url>> \in Range(valid_urls) => store[k].is_enabled

\* C30: when verify_urls returns, every input url is in exactly one of
\* valid_urls and invalid_urls, valid_urls keeps the input order, every url
\* reported invalid is disabled in the store and the rows of the urls
\* reported valid are as they were.
C30_VerifyUrlsDisablesInvalid ==
    /\ C30_Partition
    /\ C30_ValidRowsKept
    /\ VerifyReturned =>
          \A n \in DOMAIN invalid_urls : \A k \in DOMAIN store :
              store[k].url = invalid_urls[n] => ~store[k].is_enabled

\* C31: for every url checked, GET was called exactly when HEAD raised a
\* request exception; the url is alive exactly when the status of the HEAD
\* response, or of the GET response if GET was called, is in [200, 400);
\* a HEAD answered with a status >= 400 makes the url invalid without a GET.
C31_AliveIffStatusOfHeadOrFallback ==
    \A k \in DOMAIN vf_log :
        LET e == vf_log[k]
        IN  /\ e.get_called <=> e.head.raised
            /\ e.alive <=>
                  IF e.head.raised
                  THEN ~e.get.raised /\ e.get.status >= 200 /\ e.get.status < 400
                  ELSE e.head.status >= 200 /\ e.head.status < 400
            /\ (~e.head.raised /\ e.head.status >= 400) => (~e.get_called /\ ~e.alive)

\* verify_urls has checked a url whose HEAD was answered 404 and a url whose
\* HEAD raised and whose GET was answered 200
C31_Witness ==
    /\ vf_pc = "done"
    /\ vf_caller = "verify_urls"
    /\ \E k \in DOMAIN vf_log : ~vf_log[k].head.raised /\ vf_log[k].head.status = 404
    /\ \E k \in DOMAIN vf_log :
          vf_log[k].head.raised /\ ~vf_log[k].get.raised /\ vf_log[k].get.status = 200

\* the spider types of the crawls a run_spider call made for the url
SpiderTypesOf(run, url) ==
    {run.spiders[n].spider :
        n \in {m \in DOMAIN run.spiders : run.spiders[m].careers_page_url = url}}

SpidersOfRun ==
    UNION {Range(mn_runs[r].spiders) : r \in DOMAIN mn_runs}

\* C33: every spider constructed by run_spider holds the spider_id of its
\* type (departments 1, outline 2, Lever 3), so spiders of different types
\* hold different spider_id values.
C33_SpiderIdsDistinctByType ==
    \A a \in SpidersOfRun :
        /\ a.spider = "departments" => a.spider_id = 1
        /\ a.spider = "outline" => a.spider_id = 2
        /\ a.spider = "lever" => a.spider_id = 3
        /\ \A b \in SpidersOfRun : a.spider # b.spider => a.spider_id # b.spider_id

\* spiders of the three types were constructed, two of them for one url
\* with one url_id
C33_Witness ==
    /\ {a.spider : a \in SpidersOfRun} = {"departments", "outline", "lever"}
    /\ \E a, b \in SpidersOfRun :
          /\ a.spider = "departments" /\ b.spider = "outline"
          /\ a.careers_page_url = b.careers_page_url /\ a.url_id = b.url_id

\* a DNS failure, a timeout or a connection failure
IsNetworkFailure(failure) == failure \in NetworkFailures

\* C34: the retry counter of the spider's url equals the number of network
\* failures (DNS, timeout, connection refused) delivered to the classifier:
\* each of them is counted as transient.
C34_NetworkFailuresAreCounted ==
    IF SpiderUrl \in DOMAIN retry_counts
    THEN retry_counts[SpiderUrl] = Delivered(IsNetworkFailure)
    ELSE Delivered(IsNetworkFailure) = 0

\* the same statement for the failures the classifier tests for
C34_TestedFailuresAreCounted ==
    IF SpiderUrl \in DOMAIN retry_counts
    THEN retry_counts[SpiderUrl] = Delivered(IsTransient)
    ELSE Delivered(IsTransient) = 0

C36_DistinctUrlsDistinctUrlIds ==
    \A a, b \in SpidersOfRun :
        a.careers_page_url # b.careers_page_url => a.url_id # b.url_id

\* the same statement for runs whose chunks all have the same length
C36_DistinctUrlIdsInEqualChunks ==
    (\A m, n \in DOMAIN mn_chunks : Len(mn_chunks[m]) = Len(mn_chunks[n])) =>
        C36_DistinctUrlsDistinctUrlIds

\* C37: the records emitted by one departments spider have pairwise
\* different sequence indexes, hence different ids, also when they come
\* from different pages of the board.
C37_DepartmentIdsDistinctAcrossPages ==
    pg_spider = "departments" =>
        \A m, n \in DOMAIN pg_items :
            m # n => pg_items[m].row # pg_items[n].row

\* the same statement for the records of one page
C37_DepartmentIdsDistinctOnOnePage ==
    pg_spider = "departments" =>
        \A m, n \in DOMAIN pg_items :
            (m # n /\ pg_items[m].page = pg_items[n].page) =>
                pg_items[m].row # pg_items[n].row

\* C38: two job rows of a new-format board with different (section index,
\* row index, page number) get different sequence indexes.
C38_RowIndexInjective ==
    \A m, n \in DOMAIN ri_calls :
        ri_calls[m].row = ri_calls[n].row =>
            /\ ri_calls[m].i = ri_calls[n].i
            /\ ri_calls[m].j = ri_calls[n].j
            /\ ri_calls[m].page = ri_calls[n].page

\* the same statement for sections of at most ten rows
C38_RowIndexInjectiveUpToTenRows ==
    (\A n \in DOMAIN ri_calls : ri_calls[n].j < 10) => C38_RowIndexInjective

\* C39: the retry counter of a url in a spider never exceeds 1, and as long
\* as no 404 was delivered to the classifier the spider's url is enabled:
\* transient failures alone do not disable it within a run.
C39_RetryCounterAtMostOne ==
    /\ \A u \in DOMAIN retry_counts : retry_counts[u] <= 1
    /\ Len(failure_log) <= 1
    /\ Delivered(IsNotFound) = 0 => BoardEnabled

\* the first request of the outline spider failed with a transient failure:
\* the counter is 1, the crawl is over and the url is enabled
C39_Witness ==
    /\ pg_spider = "outline"
    /\ pg_failed = {1}
    /\ pg_pending = 0
    /\ Delivered(IsTransient) = 1
    /\ retry_counts[SpiderUrl] = 1
    /\ BoardEnabled

\* C40: is_enabled is monotone: a row that is disabled stays in the store
\* with its url and stays disabled in every step of discovery (a url that is
\* discovered again included), verification, the classifier and the harvest.
C40_EnabledIsMonotone ==
    [][\A k \in DOMAIN store :
          ~store[k].is_enabled =>
              /\ k \in DOMAIN store'
              /\ store'[k].url = store[k].url
              /\ ~store'[k].is_enabled]_vars

\* a url that the harvest disabled was discovered again under the name of
\* its row, by a call that did not fail, and its row is disabled
C40_Witness ==
    /\ last_add.present
    /\ ~last_add.db_error
    /\ ~last_add.returned
    /\ \E k \in DOMAIN store :
          /\ store[k].url = last_add.url
          /\ store[k].company_name = last_add.company_name
          /\ store[k].updated_at = "updated"
          /\ ~store[k].is_enabled

====
